---- MODULE Spec2Model ----
(***************************************************************************)
(* Token-bounded splitter of simple-prompt-tools (src/utils/tokenUtils.ts  *)
(* and the splitClipboardByTokens action).  Strings are sequences of       *)
(* one-character strings; a JavaScript slice is a SubSeq.                  *)
(***************************************************************************)
EXTENDS Integers, Sequences, FiniteSets, TLC

(***************************************************************************)
(* Bounds of the model.                                                    *)
(***************************************************************************)
MaxLen == 3          \* longest text handed to splitByTokenLimit
MaxBase == 2         \* largest per-length term of an injected counter
MaxLimit == 3        \* largest token limit tried with an injected counter
MaxFiles == 3        \* longest record list handed to groupFilesByTokenLimit
MaxTokenCount == 3   \* largest tokenCount of a record handed to it
MaxGroupLimit == 3   \* largest maxTokensPerGroup handed to it
MaxItems == 2        \* most items (file blocks, other text) on the clipboard
MaxSplitLimit == 6   \* largest maxTokensPerSplit handed to the clipboard split
MaxAppends == 3      \* most copy actions run one after another
MaxSelected == 251    \* files selected in copyFolder: five batches and one file

(***************************************************************************)
(* State.  Each operation has its own variables; while one operation runs, *)
(* the variables of the others are at rest.                                *)
(***************************************************************************)
\* one call of splitByTokenLimit
VARIABLES
    pc,                 \* "idle", "loop" (in the while loop), "done" (returned)
    text,               \* argument text
    maxTokensPerChunk,  \* argument maxTokensPerChunk
    tokenCounter,       \* argument tokenCounter
    remaining,          \* local remaining
    chunks,             \* local chunks, the value returned
    iterations,         \* turns of the while loop taken so far
    searched,           \* argument of the last findLongestPrefixWithinTokenLimit
    take                \* value it returned

splitVars == <<pc, text, maxTokensPerChunk, tokenCounter, remaining, chunks,
               iterations, searched, take>>

\* one call of groupFilesByTokenLimit
VARIABLES
    gpc,                 \* "idle", "loop" (in the for loop), "done" (returned)
    files,               \* argument files
    maxTokensPerGroup,   \* argument maxTokensPerGroup
    fileIndex,           \* number of files the for loop has taken
    groups,              \* local groups, the value returned
    currentGroup,        \* local currentGroup
    currentGroupTokens   \* local currentGroupTokens

groupVars == <<gpc, files, maxTokensPerGroup, fileIndex, groups, currentGroup,
               currentGroupTokens>>

\* one run of the file-based or plain-text split of the clipboard
VARIABLES
    fpc,                 \* position in splitClipboardByTokens
    clipboardContent,    \* text read from the clipboard
    encoder,             \* TRUE when the tiktoken encoder is loaded
    maxTokensPerSplit,   \* limit entered by the user
    preferFiles,         \* strategy chosen by the user
    parsedFiles,         \* records of parseClipboardFiles, the quick check
    accurateParsedFiles, \* records of parseClipboardFilesAsync
    nextFile,            \* number of records the normalizing loop has taken
    normalizedFiles,     \* local normalizedFiles of handleFileBasedContent
    fileGroups,          \* local fileGroups
    chunkStrings,        \* the output chunks
    reparsed             \* records parsed back from the rendered records

fileVars == <<fpc, clipboardContent, encoder, maxTokensPerSplit, preferFiles,
              parsedFiles, accurateParsedFiles, nextFile, normalizedFiles, fileGroups,
              chunkStrings, reparsed>>

\* one call of parseClipboardFiles or parseClipboardFilesAsync
VARIABLES
    ppc,             \* "idle", "loop" (in the while loop), "done" (returned)
    parseItems,      \* the pieces of text the argument was put together from
    parseContent,    \* argument clipboardContent
    parseAsync,      \* TRUE for parseClipboardFilesAsync
    parseEncoder,    \* TRUE when the tiktoken encoder is loaded
    lastIndex,       \* fileBlockRegex.lastIndex, as the next position to try
    matched,         \* the matches fileBlockRegex.exec has returned so far
    parserFiles      \* local files, the value returned

parseVars == <<ppc, parseItems, parseContent, parseAsync, parseEncoder, lastIndex,
               matched, parserFiles>>

\* two calls of splitByTokenLimit in flight at once, an await at a time
VARIABLES
    calls,     \* for each call: its position, arguments, locals and outcome
    counted    \* what the counter has answered so far, for each string asked

probeVars == <<calls, counted>>

\* one call of splitTextByTokenLimit or splitMarkdownFileIntoTokenChunks,
\* a call of getTokenCount at a time
VARIABLES
    split,            \* position, arguments and locals of the splitByTokenLimit call
    splitFilename,    \* argument filename, empty for splitTextByTokenLimit
    tiktokenLoaded,   \* the module's encoder is set
    methods           \* how the probes of this call were counted so far

countVars == <<split, splitFilename, tiktokenLoaded, methods>>

\* copy actions run one after another, each ending in appendToClipboard
VARIABLES
    apc,           \* "idle", "readText" or "writeText" (the call awaited)
    clipboard,     \* the text on the system clipboard
    output,        \* argument content as the action passed it
    append,        \* argument append
    clipContent,   \* the parameter content, which the function reassigns
    before,        \* the clipboard when the last action began
    outputs,       \* outputs of the completed actions since the last one
                   \* that did not append
    completed,     \* the last action completed, it did not throw
    actionsRun     \* number of actions begun

clipVars == <<apc, clipboard, output, append, clipContent, before, outputs, completed,
              actionsRun>>

\* callers of getTokenCount and estimateTokenCount around loadTiktoken
VARIABLES
    callers,         \* for each caller: its position, what it saw and got
    moduleEncoder,   \* the module's encoder is set
    isLoading,       \* the module's isLoading
    loadsInFlight    \* executions of loadTiktoken between isLoading = true
                     \* and the finally block

loaderVars == <<callers, moduleEncoder, isLoading, loadsInFlight>>

\* the command splitClipboardByTokens with its prompts
VARIABLES
    cmdpc,            \* position of the command: the prompt it shows
    pastedContent,    \* clipboardContent read by the command
    cmdEncoder,       \* the encoder is loaded
    cmdLimit,         \* maxTokensPerSplit entered
    cmdPreferFiles,   \* preferFiles && parsedFiles.length > 0
    cmdFiles,         \* normalizedFiles of handleFileBasedContent
    cmdChunks,        \* the chunks handed to the output method
    dismissed,        \* the prompts the user dismissed or declined
    copyIndex,        \* index of interactiveClipboardCopy
    written,          \* indices written to the clipboard, in order
    chosenNext,       \* indices whose prompt was answered "Copy next"
    systemClipboard,  \* the clipboard
    editorsOpened,    \* editors opened by createEditorsForChunks
    allCopied         \* "All chunks copied." was shown

commandVars == <<cmdpc, pastedContent, cmdEncoder, cmdLimit, cmdPreferFiles,
                 cmdFiles, cmdChunks, dismissed, copyIndex, written,
                 chosenNext, systemClipboard, editorsOpened, allCopied>>

\* the template commands over the file editor-templates.json
VARIABLES
    templatesFile,   \* the persisted store: the templates of the workspace
    cmds             \* for each command run: its position and its locals

storeVars == <<templatesFile, cmds>>

\* copyFolder: the selected files are copied in batches
VARIABLES
    folderpc,           \* position of copyFolder
    selectedItems,      \* number of files selected, in selection order 1..n
    folderAppend,       \* the argument append
    previousClipboard,  \* the clipboard when the command started
    folderClipboard,    \* the clipboard
    batchStart,         \* i of the batch loop
    processedFiles,     \* processedFiles
    markdownContent     \* markdownContent

folderVars == <<folderpc, selectedItems, folderAppend, previousClipboard,
                folderClipboard, batchStart, processedFiles, markdownContent>>

nonSplitVars == <<groupVars, fileVars, parseVars, probeVars, countVars,
                  clipVars, loaderVars, commandVars, storeVars, folderVars>>
nonGroupVars == <<splitVars, fileVars, parseVars, probeVars, countVars,
                  clipVars, loaderVars, commandVars, storeVars, folderVars>>
nonFileVars == <<splitVars, groupVars, parseVars, probeVars, countVars,
                 clipVars, loaderVars, commandVars, storeVars, folderVars>>
nonParseVars == <<splitVars, groupVars, fileVars, probeVars, countVars,
                  clipVars, loaderVars, commandVars, storeVars, folderVars>>
nonProbeVars == <<splitVars, groupVars, fileVars, parseVars, countVars,
                  clipVars, loaderVars, commandVars, storeVars, folderVars>>
nonCountVars == <<splitVars, groupVars, fileVars, parseVars, probeVars,
                  clipVars, loaderVars, commandVars, storeVars, folderVars>>
nonClipVars == <<splitVars, groupVars, fileVars, parseVars, probeVars,
                 countVars, loaderVars, commandVars, storeVars, folderVars>>
nonLoaderVars == <<splitVars, groupVars, fileVars, parseVars, probeVars,
                   countVars, clipVars, commandVars, storeVars, folderVars>>
nonCommandVars == <<splitVars, groupVars, fileVars, parseVars, probeVars,
                    countVars, clipVars, loaderVars, storeVars, folderVars>>
nonStoreVars == <<splitVars, groupVars, fileVars, parseVars, probeVars,
                  countVars, clipVars, loaderVars, commandVars, folderVars>>
nonFolderVars == <<splitVars, groupVars, fileVars, parseVars, probeVars,
                   countVars, clipVars, loaderVars, commandVars, storeVars>>

(***************************************************************************)
(* JavaScript helpers.                                                     *)
(***************************************************************************)
Min(a, b) == IF a <= b THEN a ELSE b
Max(a, b) == IF a >= b THEN a ELSE b

\* String.prototype.slice(0, n) and slice(n) for 0 <= n (indices are clamped)
SliceTo(s, n) == SubSeq(s, 1, Min(n, Len(s)))
SliceFrom(s, n) == SubSeq(s, Min(n, Len(s)) + 1, Len(s))

RECURSIVE Join(_)
\* Array.prototype.join("") of an array of strings
Join(ss) == IF ss = << >> THEN << >> ELSE Head(ss) \o Join(Tail(ss))

\* all strings over alphabet A of length at most n
StringsUpTo(A, n) == UNION {[1..k -> A] : k \in 0..n}

(***************************************************************************)
(* Characters and the token counters of tokenUtils.ts.                     *)
(***************************************************************************)
BT == "bq"          \* the backquote character
NL == "\n"
SP == " "
Fence == <<BT, BT, BT>>

Spaces == {SP, NL}                   \* \s
Letters == {"a", "b"}                \* \p{L}
IsSpace(c) == c \in Spaces

\* String.prototype.trim
RECURSIVE TrimStart(_)
TrimStart(s) == IF s # << >> /\ IsSpace(Head(s)) THEN TrimStart(Tail(s)) ELSE s

RECURSIVE TrimEnd(_)
TrimEnd(s) ==
    IF s # << >> /\ IsSpace(s[Len(s)]) THEN TrimEnd(SubSeq(s, 1, Len(s) - 1)) ELSE s

Trim(s) == TrimEnd(TrimStart(s))

\* getApproximateTokenCount: Math.ceil(wordCount + charCount / 4)
getApproximateTokenCount(s) ==
    LET wordCount == Cardinality({i \in 1..Len(s) :
                         ~IsSpace(s[i]) /\ (i = 1 \/ IsSpace(s[i - 1]))})
        charCount == Cardinality({i \in 1..Len(s) : ~IsSpace(s[i])})
    IN  wordCount + (charCount + 3) \div 4

\* last index of the run of characters of class C that starts at p
\* (p - 1 when s[p] is not in C)
RECURSIVE RunEnd(_, _, _)
RunEnd(s, p, C) ==
    IF p <= Len(s) /\ s[p] \in C THEN RunEnd(s, p + 1, C) ELSE p - 1

\* enc.encode(text).length for the cl100k_base encoder: the text is cut into
\* pieces by cl100k_base.pat_str and every piece of this alphabet is one
\* token.  PieceEnd is the last index of the piece that starts at p:
\*   [^\r\n\p{L}\p{N}]?\p{L}+   |   ?[^\s\p{L}\p{N}]+[\r\n]*
\*   |  \s*[\r\n]+  |  \s+(?!\S)  |  \s+
PieceEnd(s, p) ==
    LET c == s[p]
        nextIn(C) == p + 1 <= Len(s) /\ s[p + 1] \in C
        ws == RunEnd(s, p, Spaces)
        lastNL == IF \E i \in p..ws : s[i] = NL
                    THEN CHOOSE i \in p..ws : s[i] = NL /\ \A j \in (i + 1)..ws : s[j] # NL
                    ELSE 0
    IN  IF c \in Letters THEN RunEnd(s, p, Letters)
        ELSE IF c # NL /\ nextIn(Letters) THEN RunEnd(s, p + 1, Letters)
        ELSE IF c = BT THEN RunEnd(s, RunEnd(s, p, {BT}) + 1, {NL})
        ELSE IF c = SP /\ nextIn({BT})
               THEN RunEnd(s, RunEnd(s, p + 1, {BT}) + 1, {NL})
        ELSE IF lastNL # 0 THEN lastNL
        ELSE IF ws = Len(s) \/ ws = p THEN ws
        ELSE ws - 1

RECURSIVE EncodeLenFrom(_, _)
EncodeLenFrom(s, p) ==
    IF p > Len(s) THEN 0 ELSE 1 + EncodeLenFrom(s, PieceEnd(s, p) + 1)

EncodeLen(s) == EncodeLenFrom(s, 1)

\* getTokenCount; enc is the outcome of loadTiktoken (TRUE: an encoder)
getTokenCount(s, enc) ==
    IF s = << >> THEN 0
    ELSE IF enc THEN (4 * EncodeLen(s) + 6) \div 7     \* Math.ceil(n / 1.75)
    ELSE getApproximateTokenCount(s)

\* the string totalContent that getMarkdownFileTokenCount and
\* estimateMarkdownFileTokenCount hand to the counting function
totalContent(filename, content) ==
    LET markdownOverhead == Fence \o filename \o <<NL, NL>> \o Fence \o <<NL, NL>>
    IN  markdownOverhead \o content

\* getMarkdownFileTokenCount
getMarkdownFileTokenCount(filename, content, enc) ==
    getTokenCount(totalContent(filename, content), enc)

\* estimateTokenCount: Math.ceil(getApproximateTokenCount(text) / 1.75)
estimateTokenCount(s) ==
    IF s = << >> THEN 0 ELSE (4 * getApproximateTokenCount(s) + 6) \div 7

\* estimateMarkdownFileTokenCount
estimateMarkdownFileTokenCount(filename, content) ==
    estimateTokenCount(totalContent(filename, content))

(***************************************************************************)
(* Injected counters (tokenCounter: (s: string) => Promise<number>).       *)
(* A counter is deterministic; it is given by a term for the length of the *)
(* string, which need not grow with the length, and a weight for each "b". *)
(***************************************************************************)
SplitAlphabet == {"a", "b"}

Counters == [kind : {"injected"}, base : [0..MaxLen -> 0..MaxBase], wb : 0..1]

OccurrencesOf(c, s) == Cardinality({i \in 1..Len(s) : s[i] = c})

\* the counter of splitTextByTokenLimit: getTokenCount
TextCounter(enc) == [kind |-> "text", enc |-> enc]

\* the counter of splitMarkdownFileIntoTokenChunks:
\* async (s) => await getMarkdownFileTokenCount(filename, s)
MarkdownFileCounter(filename, enc) ==
    [kind |-> "markdownFile", filename |-> filename, enc |-> enc]

\* the counter that counts characters: async (s) => s.length
CharacterCounter == [kind |-> "characters"]

\* await tokenCounter(candidate)
Count(ctr, s) ==
    CASE ctr.kind = "characters" -> Len(s)
      [] ctr.kind = "injected" -> ctr.base[Len(s)] + ctr.wb * OccurrencesOf("b", s)
      [] ctr.kind = "text" -> getTokenCount(s, ctr.enc)
      [] ctr.kind = "markdownFile" -> getMarkdownFileTokenCount(ctr.filename, s, ctr.enc)
      [] ctr.kind = "table" -> IF s \in DOMAIN ctr.table THEN ctr.table[s] ELSE 0

(***************************************************************************)
(* findLongestPrefixWithinTokenLimit: the binary search over the prefix    *)
(* length.  ProbeStep is one turn of its while loop.                       *)
(***************************************************************************)
\* variant: the comparison is strict
ProbeStep_Strict(st, txt, maxTokens, ctr) ==
    LET mid == (st.low + st.high) \div 2
        candidate == SliceTo(txt, mid)
        tokens == Count(ctr, candidate)
    IN  IF tokens < maxTokens
          THEN [low |-> mid + 1, high |-> st.high, best |-> mid]
          ELSE [low |-> st.low, high |-> mid - 1, best |-> st.best]

ProbeStep(st, txt, maxTokens, ctr) ==
    LET mid == (st.low + st.high) \div 2
        candidate == SliceTo(txt, mid)
        tokens == Count(ctr, candidate)
    IN  IF tokens <= maxTokens
          THEN [low |-> mid + 1, high |-> st.high, best |-> mid]
          ELSE [low |-> st.low, high |-> mid - 1, best |-> st.best]

RECURSIVE SearchLoop(_, _, _, _)
SearchLoop(st, txt, maxTokens, ctr) ==
    IF st.low <= st.high
      THEN SearchLoop(ProbeStep(st, txt, maxTokens, ctr), txt, maxTokens, ctr)
      ELSE st

\* variant: returns low, one past the last prefix that fitted
findLongestPrefix_ReturnsLow(txt, maxTokens, ctr) ==
    LET st == SearchLoop([low |-> 0, high |-> Len(txt), best |-> 0],
                         txt, maxTokens, ctr)
    IN  Max(1, st.low)

\* variant: no floor of 1 on the result
findLongestPrefix_NoFloor(txt, maxTokens, ctr) ==
    LET st == SearchLoop([low |-> 0, high |-> Len(txt), best |-> 0],
                         txt, maxTokens, ctr)
    IN  st.best

\* variant: the search never tries the whole txt
findLongestPrefix_ShortHigh(txt, maxTokens, ctr) ==
    LET st == SearchLoop([low |-> 0, high |-> Len(txt) - 1, best |-> 0],
                         txt, maxTokens, ctr)
    IN  Max(1, st.best)

\* variant: returns one less than the longest prefix that fitted
findLongestPrefix_OneShort(txt, maxTokens, ctr) ==
    LET st == SearchLoop([low |-> 0, high |-> Len(txt), best |-> 0],
                         txt, maxTokens, ctr)
    IN  Max(1, st.best - 1)

findLongestPrefixWithinTokenLimit(txt, maxTokens, ctr) ==
    LET st == SearchLoop([low |-> 0, high |-> Len(txt), best |-> 0],
                         txt, maxTokens, ctr)
    IN  Max(1, st.best)

(***************************************************************************)
(* splitByTokenLimit: state of one call.                                   *)
(***************************************************************************)
NoCounter == [kind |-> "injected", base |-> [k \in 0..MaxLen |-> 0], wb |-> 0]

SplitIdle ==
    /\ pc = "idle"
    /\ text = << >>
    /\ maxTokensPerChunk = 1
    /\ tokenCounter = NoCounter
    /\ remaining = << >>
    /\ chunks = << >>
    /\ iterations = 0
    /\ searched = << >>
    /\ take = 0

\* the call: chunks = [], remaining = text
CallSplit ==
    /\ pc = "idle"
    /\ \E t \in StringsUpTo(SplitAlphabet, MaxLen), m \in 1..MaxLimit,
          c \in Counters \cup {CharacterCounter} :
         /\ text' = t
         /\ maxTokensPerChunk' = m
         /\ tokenCounter' = c
         /\ remaining' = t
    /\ chunks' = << >>
    /\ iterations' = 0
    /\ pc' = "loop"
    /\ UNCHANGED <<searched, take>>
    /\ UNCHANGED nonSplitVars

\* variant: remaining skips one character past the part
SplitBody_SkipsOne(rem, chs, maxTokens, ctr) ==
    LET tk == findLongestPrefixWithinTokenLimit(rem, maxTokens, ctr)
        part == SliceTo(rem, tk)
    IN  [take |-> tk, chunks |-> Append(chs, part),
         remaining |-> SliceFrom(rem, tk + 1)]

\* the body of the while loop, on the locals
SplitBody(rem, chs, maxTokens, ctr) ==
    LET tk == findLongestPrefixWithinTokenLimit(rem, maxTokens, ctr)
        part == SliceTo(rem, tk)
    IN  [take |-> tk, chunks |-> Append(chs, part), remaining |-> SliceFrom(rem, tk)]

\* one turn of while (remaining.length > 0)
SplitIteration ==
    /\ pc = "loop"
    /\ Len(remaining) > 0
    /\ LET r == SplitBody(remaining, chunks, maxTokensPerChunk, tokenCounter)
       IN  /\ searched' = remaining
           /\ take' = r.take
           /\ chunks' = r.chunks
           /\ remaining' = r.remaining
    /\ iterations' = iterations + 1
    /\ UNCHANGED <<pc, text, maxTokensPerChunk, tokenCounter>>
    /\ UNCHANGED nonSplitVars

\* the loop condition fails: return chunks
SplitReturn ==
    /\ pc = "loop"
    /\ Len(remaining) = 0
    /\ pc' = "done"
    /\ UNCHANGED <<text, maxTokensPerChunk, tokenCounter, remaining, chunks,
                   iterations, searched, take>>
    /\ UNCHANGED nonSplitVars

(***************************************************************************)
(* groupFilesByTokenLimit: state of one call.                              *)
(***************************************************************************)
GroupIdle ==
    /\ gpc = "idle"
    /\ files = << >>
    /\ maxTokensPerGroup = 0
    /\ fileIndex = 0
    /\ groups = << >>
    /\ currentGroup = << >>
    /\ currentGroupTokens = 0

\* variant: an oversized file discards the open group instead of pushing it
GroupBody_DropsOpenGroup(st, file, maxTokens) ==
    IF file.tokenCount > maxTokens
      THEN [groups |-> Append(st.groups, <<file>>),
            currentGroup |-> << >>, currentGroupTokens |-> 0]
      ELSE LET flush == /\ st.currentGroupTokens + file.tokenCount > maxTokens
                        /\ Len(st.currentGroup) > 0
               g == IF flush THEN Append(st.groups, st.currentGroup) ELSE st.groups
               cg == IF flush THEN << >> ELSE st.currentGroup
               ct == IF flush THEN 0 ELSE st.currentGroupTokens
           IN  [groups |-> g, currentGroup |-> Append(cg, file),
                currentGroupTokens |-> ct + file.tokenCount]

\* variant: a closed group resets the running total after the file is added
GroupBody_ResetAfterAdd(st, file, maxTokens) ==
    IF file.tokenCount > maxTokens
      THEN LET g == IF Len(st.currentGroup) > 0
                      THEN Append(st.groups, st.currentGroup) ELSE st.groups
           IN  [groups |-> Append(g, <<file>>),
                currentGroup |-> << >>, currentGroupTokens |-> 0]
      ELSE LET flush == /\ st.currentGroupTokens + file.tokenCount > maxTokens
                        /\ Len(st.currentGroup) > 0
               g == IF flush THEN Append(st.groups, st.currentGroup) ELSE st.groups
               cg == IF flush THEN << >> ELSE st.currentGroup
               ct == IF flush THEN - file.tokenCount ELSE st.currentGroupTokens
           IN  [groups |-> g, currentGroup |-> Append(cg, file),
                currentGroupTokens |-> ct + file.tokenCount]

\* variant: the open group is closed before every file that is not its first
GroupBody_ClosesAlways(st, file, maxTokens) ==
    IF file.tokenCount > maxTokens
      THEN LET g == IF Len(st.currentGroup) > 0
                      THEN Append(st.groups, st.currentGroup) ELSE st.groups
           IN  [groups |-> Append(g, <<file>>),
                currentGroup |-> << >>, currentGroupTokens |-> 0]
      ELSE LET flush == Len(st.currentGroup) > 0
               g == IF flush THEN Append(st.groups, st.currentGroup) ELSE st.groups
           IN  [groups |-> g, currentGroup |-> <<file>>,
                currentGroupTokens |-> file.tokenCount]

\* the body of for (const file of files), on the locals
GroupBody(st, file, maxTokens) ==
    IF file.tokenCount > maxTokens
      THEN LET g == IF Len(st.currentGroup) > 0
                      THEN Append(st.groups, st.currentGroup) ELSE st.groups
               cg == IF Len(st.currentGroup) > 0 THEN << >> ELSE st.currentGroup
               ct == IF Len(st.currentGroup) > 0 THEN 0 ELSE st.currentGroupTokens
           IN  [groups |-> Append(g, <<file>>),
                currentGroup |-> cg, currentGroupTokens |-> ct]
      ELSE LET flush == /\ st.currentGroupTokens + file.tokenCount > maxTokens
                        /\ Len(st.currentGroup) > 0
               g == IF flush THEN Append(st.groups, st.currentGroup) ELSE st.groups
               cg == IF flush THEN << >> ELSE st.currentGroup
               ct == IF flush THEN 0 ELSE st.currentGroupTokens
           IN  [groups |-> g, currentGroup |-> Append(cg, file),
                currentGroupTokens |-> ct + file.tokenCount]

\* variant: the last group is pushed whether it has content or not
GroupFlush_Unconditional(st) == Append(st.groups, st.currentGroup)

\* after the loop: push the last group if it has content
GroupFlush(st) ==
    IF Len(st.currentGroup) > 0 THEN Append(st.groups, st.currentGroup) ELSE st.groups

RECURSIVE GroupLoop(_, _, _)
GroupLoop(st, fs, maxTokens) ==
    IF fs = << >> THEN st
    ELSE GroupLoop(GroupBody(st, Head(fs), maxTokens), Tail(fs), maxTokens)

groupFilesByTokenLimit(fs, maxTokens) ==
    GroupFlush(GroupLoop([groups |-> << >>, currentGroup |-> << >>,
                          currentGroupTokens |-> 0], fs, maxTokens))

\* records handed to a call of groupFilesByTokenLimit on its own
GroupRecords == [filename : {"f", "g"}, tokenCount : 0..MaxTokenCount]

CallGroup ==
    /\ gpc = "idle"
    /\ \E n \in 0..MaxFiles :
         \E fs \in [1..n -> GroupRecords], m \in -1..MaxGroupLimit :
           /\ files' = fs
           /\ maxTokensPerGroup' = m
    /\ fileIndex' = 0
    /\ groups' = << >>
    /\ currentGroup' = << >>
    /\ currentGroupTokens' = 0
    /\ gpc' = "loop"
    /\ UNCHANGED nonGroupVars

GroupIteration ==
    /\ gpc = "loop"
    /\ fileIndex < Len(files)
    /\ LET r == GroupBody([groups |-> groups, currentGroup |-> currentGroup,
                           currentGroupTokens |-> currentGroupTokens],
                          files[fileIndex + 1], maxTokensPerGroup)
       IN  /\ groups' = r.groups
           /\ currentGroup' = r.currentGroup
           /\ currentGroupTokens' = r.currentGroupTokens
    /\ fileIndex' = fileIndex + 1
    /\ UNCHANGED <<gpc, files, maxTokensPerGroup>>
    /\ UNCHANGED nonGroupVars

GroupReturn ==
    /\ gpc = "loop"
    /\ fileIndex = Len(files)
    /\ groups' = GroupFlush([groups |-> groups, currentGroup |-> currentGroup,
                             currentGroupTokens |-> currentGroupTokens])
    /\ gpc' = "done"
    /\ UNCHANGED <<files, maxTokensPerGroup, fileIndex, currentGroup, currentGroupTokens>>
    /\ UNCHANGED nonGroupVars

(***************************************************************************)
(* splitByTokenLimit, splitTextByTokenLimit and                            *)
(* splitMarkdownFileIntoTokenChunks as functions of their arguments.       *)
(***************************************************************************)
RECURSIVE SplitLoop(_, _, _, _)
SplitLoop(rem, chs, maxTokens, ctr) ==
    IF Len(rem) > 0
      THEN LET r == SplitBody(rem, chs, maxTokens, ctr)
           IN  SplitLoop(r.remaining, r.chunks, maxTokens, ctr)
      ELSE chs

splitByTokenLimit(txt, maxTokens, ctr) == SplitLoop(txt, << >>, maxTokens, ctr)

splitTextByTokenLimit(txt, maxTokens, enc) ==
    splitByTokenLimit(txt, maxTokens, TextCounter(enc))

\* the record pushed for one part
\* the text rawMarkdown that a part is rendered to
RenderPart(filename, part) ==
    Fence \o filename \o <<NL>> \o part \o <<NL>> \o Fence \o <<NL, NL>>

PartRecord(filename, part, enc) ==
    LET rawMarkdown == RenderPart(filename, part)
    IN  [filename |-> filename, content |-> part,
         tokenCount |-> getTokenCount(rawMarkdown, enc), rawMarkdown |-> rawMarkdown]

splitMarkdownFileIntoTokenChunks(filename, content, maxTokens, enc) ==
    LET parts == splitByTokenLimit(content, maxTokens, MarkdownFileCounter(filename, enc))
    IN  [i \in 1..Len(parts) |-> PartRecord(filename, parts[i], enc)]

(***************************************************************************)
(* parseClipboardFilesAsync: the loop over the matches of fileBlockRegex    *)
(* (a fence, a label without newline, a newline, the shortest body that a  *)
(* fence follows).                                                         *)
(***************************************************************************)
FenceAt(s, i) == i + 2 <= Len(s) /\ s[i] = BT /\ s[i + 1] = BT /\ s[i + 2] = BT

MinOf(S) == CHOOSE x \in S : \A y \in S : x <= y

\* first newline at or after position i, 0 when there is none
NewlineFrom(s, i) ==
    LET N == {j \in i..Len(s) : s[j] = NL} IN IF N = {} THEN 0 ELSE MinOf(N)

\* first fence at or after position i, 0 when there is none
FenceFrom(s, i) ==
    LET F == {j \in i..Len(s) : FenceAt(s, j)} IN IF F = {} THEN 0 ELSE MinOf(F)

\* the regular expression matches at position p: a fence, the label up to
\* the first newline, the content up to the first fence after it
MatchesAt(s, p) ==
    /\ FenceAt(s, p)
    /\ NewlineFrom(s, p + 3) # 0
    /\ FenceFrom(s, NewlineFrom(s, p + 3) + 1) # 0

\* fileBlockRegex.exec with lastIndex = from - 1: the leftmost match, or
\* index 0 for null
RegexExec(s, from) ==
    LET P == {p \in from..Len(s) : MatchesAt(s, p)}
    IN  IF P = {} THEN [index |-> 0]
        ELSE LET p == MinOf(P)
                 nl == NewlineFrom(s, p + 3)
                 cl == FenceFrom(s, nl + 1)
             IN  [index |-> p,
                  whole |-> SubSeq(s, p, cl + 2),          \* match[0]
                  label |-> SubSeq(s, p + 3, nl - 1),      \* match[1]
                  body |-> SubSeq(s, nl + 1, cl - 1),      \* match[2]
                  lastIndex |-> cl + 3]

\* variant: a record is pushed whatever the label
ParsedRecords_NoLabelTest(match, enc) ==
    << [filename |-> Trim(match.label), content |-> match.body,
        tokenCount |-> getMarkdownFileTokenCount(Trim(match.label), match.body, enc),
        rawMarkdown |-> match.whole \o <<NL, NL>>] >>

\* the body of the while loop for one match: the record pushed, if any
ParsedRecords(match, enc) ==
    LET filename == Trim(match.label)
        content == match.body
        rawMarkdown == match.whole \o <<NL, NL>>
    IN  IF filename # << >>
          THEN << [filename |-> filename, content |-> content,
                   tokenCount |-> getMarkdownFileTokenCount(filename, content, enc),
                   rawMarkdown |-> rawMarkdown] >>
          ELSE << >>

RECURSIVE ParseLoop(_, _, _)
ParseLoop(s, from, enc) ==
    LET match == RegexExec(s, from)
    IN  IF match.index = 0 THEN << >>
        ELSE ParsedRecords(match, enc) \o ParseLoop(s, match.lastIndex, enc)

parseClipboardFilesAsync(s, enc) == ParseLoop(s, 1, enc)

\* parseClipboardFiles, the synchronous parser: the same loop, the count
\* estimated
ParsedRecordsSync(match) ==
    LET filename == Trim(match.label)
        content == match.body
        rawMarkdown == match.whole \o <<NL, NL>>
    IN  IF filename # << >>
          THEN << [filename |-> filename, content |-> content,
                   tokenCount |-> estimateMarkdownFileTokenCount(filename, content),
                   rawMarkdown |-> rawMarkdown] >>
          ELSE << >>

RECURSIVE ParseLoopSync(_, _)
ParseLoopSync(s, from) ==
    LET match == RegexExec(s, from)
    IN  IF match.index = 0 THEN << >>
        ELSE ParsedRecordsSync(match) \o ParseLoopSync(s, match.lastIndex)

parseClipboardFiles(s) == ParseLoopSync(s, 1)

\* variant: the blocks are joined with a newline
filesToMarkdown_JoinsWithNewline(fs) ==
    Join([i \in 1..Len(fs) |->
            IF i < Len(fs) THEN fs[i].rawMarkdown \o <<NL>> ELSE fs[i].rawMarkdown])

\* filesToMarkdown
filesToMarkdown(fs) == Join([i \in 1..Len(fs) |-> fs[i].rawMarkdown])

(***************************************************************************)
(* splitClipboardByTokens with handleFileBasedContent and                  *)
(* handlePlainTextContent.                                                 *)
(***************************************************************************)
\* what the clipboard holds: blocks as the copy actions write them,
\* ```path\ncontent\n```\n\n, and text of other origin
Labels == { <<"a">>, <<SP, "a">>, << >> }
FileContents == { << >>, <<"b">>, <<"b", "b", SP, "b">> }

CopiedBlock(label, fileContent) ==
    Fence \o label \o <<NL>> \o fileContent \o <<NL>> \o Fence \o <<NL, NL>>

\* a labelled fence that is opened and never closed
UnclosedBlock == Fence \o <<"a", NL, "b">>

OtherText == { UnclosedBlock,
               Fence \o <<"a", NL, "b", "b">> \o Fence,  \* body without newline
               <<"a", SP, "b">> }

ClipboardItems ==
    {CopiedBlock(l, c) : l \in Labels, c \in FileContents} \cup OtherText

Clipboards == {Join(items) : items \in UNION {[1..n -> ClipboardItems] : n \in 0..MaxItems}}

FileIdle ==
    /\ fpc = "idle"
    /\ clipboardContent = << >>
    /\ encoder = FALSE
    /\ maxTokensPerSplit = 1
    /\ preferFiles = FALSE
    /\ parsedFiles = << >>
    /\ accurateParsedFiles = << >>
    /\ nextFile = 0
    /\ normalizedFiles = << >>
    /\ fileGroups = << >>
    /\ chunkStrings = << >>
    /\ reparsed = << >>

\* the command starts: the clipboard is read, the encoder is loaded or not,
\* the user enters the limit and picks the strategy, the quick check for
\* file blocks runs
ReadClipboard ==
    /\ fpc = "idle"
    /\ \E c \in Clipboards \ {<< >>}, e \in BOOLEAN, m \in 1..MaxSplitLimit, pf \in BOOLEAN :
         /\ clipboardContent' = c
         /\ encoder' = e
         /\ maxTokensPerSplit' = m
         /\ preferFiles' = pf
         /\ parsedFiles' = parseClipboardFiles(c)
    /\ fpc' = "read"
    /\ UNCHANGED <<accurateParsedFiles, nextFile, normalizedFiles, fileGroups,
                   chunkStrings, reparsed>>
    /\ UNCHANGED nonFileVars

\* preferFiles && parsedFiles.length > 0: parseClipboardFilesAsync
ParseFiles ==
    /\ fpc = "read"
    /\ preferFiles
    /\ Len(parsedFiles) > 0
    /\ accurateParsedFiles' = parseClipboardFilesAsync(clipboardContent, encoder)
    /\ fpc' = "normalize"
    /\ UNCHANGED <<clipboardContent, encoder, maxTokensPerSplit, preferFiles, parsedFiles, nextFile,
                   normalizedFiles, fileGroups, chunkStrings, reparsed>>
    /\ UNCHANGED nonFileVars

\* variant: a file whose count equals the limit is split as well
NormalizedRecords_SplitsAtLimit(file, maxTokens, enc) ==
    IF file.tokenCount >= maxTokens
      THEN splitMarkdownFileIntoTokenChunks(file.filename, file.content, maxTokens, enc)
      ELSE <<file>>

\* the records pushed to normalizedFiles for one file
NormalizedRecords(file, maxTokens, enc) ==
    IF file.tokenCount > maxTokens
      THEN splitMarkdownFileIntoTokenChunks(file.filename, file.content, maxTokens, enc)
      ELSE <<file>>

\* one turn of the normalizing loop of handleFileBasedContent
NormalizeIteration ==
    /\ fpc = "normalize"
    /\ nextFile < Len(accurateParsedFiles)
    /\ normalizedFiles' = normalizedFiles \o
           NormalizedRecords(accurateParsedFiles[nextFile + 1], maxTokensPerSplit, encoder)
    /\ nextFile' = nextFile + 1
    /\ UNCHANGED <<fpc, clipboardContent, encoder, maxTokensPerSplit, preferFiles, parsedFiles,
                   accurateParsedFiles, fileGroups, chunkStrings, reparsed>>
    /\ UNCHANGED nonFileVars

\* the user proceeds: groupFilesByTokenLimit, then filesToMarkdown per group
GroupAndRender ==
    /\ fpc = "normalize"
    /\ nextFile = Len(accurateParsedFiles)
    /\ LET gs == groupFilesByTokenLimit(normalizedFiles, maxTokensPerSplit)
       IN  /\ fileGroups' = gs
           /\ chunkStrings' = [i \in 1..Len(gs) |-> filesToMarkdown(gs[i])]
    /\ fpc' = "rendered"
    /\ UNCHANGED <<clipboardContent, encoder, maxTokensPerSplit, preferFiles, parsedFiles,
                   accurateParsedFiles, nextFile, normalizedFiles, reparsed>>
    /\ UNCHANGED nonFileVars

\* handlePlainTextContent: no file block or the strict strategy
SplitPlainText ==
    /\ fpc = "read"
    /\ ~(preferFiles /\ Len(parsedFiles) > 0)
    /\ chunkStrings' = splitTextByTokenLimit(clipboardContent, maxTokensPerSplit, encoder)
    /\ fpc' = "plain"
    /\ UNCHANGED <<clipboardContent, encoder, maxTokensPerSplit, preferFiles, parsedFiles,
                   accurateParsedFiles, nextFile, normalizedFiles, fileGroups, reparsed>>
    /\ UNCHANGED nonFileVars

\* the rendered records are pasted back and parsed again
ParseRendered ==
    /\ fpc = "rendered"
    /\ reparsed' = parseClipboardFilesAsync(filesToMarkdown(normalizedFiles), encoder)
    /\ fpc' = "reparsed"
    /\ UNCHANGED <<clipboardContent, encoder, maxTokensPerSplit, preferFiles, parsedFiles,
                   accurateParsedFiles, nextFile, normalizedFiles, fileGroups,
                   chunkStrings>>
    /\ UNCHANGED nonFileVars

(***************************************************************************)
(* One call of a parser, a turn of its while loop at a time.               *)
(***************************************************************************)
\* the texts parsed: the clipboard items and a block labelled with a blank
ParseItems == ClipboardItems \cup {CopiedBlock(<<SP>>, <<"b">>)}

ParseIdle ==
    /\ ppc = "idle"
    /\ parseItems = << >>
    /\ parseContent = << >>
    /\ parseAsync = FALSE
    /\ parseEncoder = FALSE
    /\ lastIndex = 1
    /\ matched = << >>
    /\ parserFiles = << >>

CallParse ==
    /\ ppc = "idle"
    /\ \E n \in 0..MaxItems : \E items \in [1..n -> ParseItems] :
         /\ parseItems' = items
         /\ parseContent' = Join(items)
    /\ \E a \in BOOLEAN, e \in BOOLEAN :
         /\ a \/ ~e          \* the synchronous parser never uses the encoder
         /\ parseAsync' = a
         /\ parseEncoder' = e
    /\ lastIndex' = 1
    /\ matched' = << >>
    /\ parserFiles' = << >>
    /\ ppc' = "loop"
    /\ UNCHANGED nonParseVars

\* fileBlockRegex.exec returned a match: the body of the while loop
ParseIteration ==
    /\ ppc = "loop"
    /\ LET match == RegexExec(parseContent, lastIndex)
       IN  /\ match.index # 0
           /\ matched' = Append(matched, match)
           /\ lastIndex' = match.lastIndex
           /\ parserFiles' = parserFiles \o
                  (IF parseAsync THEN ParsedRecords(match, parseEncoder)
                                 ELSE ParsedRecordsSync(match))
    /\ UNCHANGED <<ppc, parseItems, parseContent, parseAsync, parseEncoder>>
    /\ UNCHANGED nonParseVars

\* fileBlockRegex.exec returned null: return files
ParseReturn ==
    /\ ppc = "loop"
    /\ RegexExec(parseContent, lastIndex).index = 0
    /\ ppc' = "done"
    /\ UNCHANGED <<parseItems, parseContent, parseAsync, parseEncoder, lastIndex,
                   matched, parserFiles>>
    /\ UNCHANGED nonParseVars

(***************************************************************************)
(* Two calls of splitByTokenLimit with one injected counter, interleaved   *)
(* at the awaits of findLongestPrefixWithinTokenLimit.  The counter is      *)
(* deterministic: asked the same string again it answers as before, with   *)
(* the same number or by throwing.  A call runs from one await to the next *)
(* without interruption, as the event loop runs it.                        *)
(***************************************************************************)
Calls == {1, 2}

\* the texts split: both calls ask the counter about the same strings
ProbeTexts == StringsUpTo({"a"}, MaxLen)

NoError == [message |-> "none", candidate |-> << >>]
Throws == -1        \* entry of counted for a string the counter throws on

\* the error the counter throws when asked s
CounterError(s) == [message |-> "tokenCounter failed", candidate |-> s]

\* a counter that answers as the counter has answered so far
TableCounter(table) == [kind |-> "table", table |-> table]

IdleCall ==
    [pc |-> "idle", text |-> << >>, maxTokensPerChunk |-> 1, remaining |-> << >>,
     chunks |-> << >>, low |-> 0, high |-> 0, best |-> 0, mid |-> 0,
     outstanding |-> 0,       \* counter calls issued and not yet answered
     searches |-> 0,          \* searches entered so far
     overlaps |-> FALSE,      \* the call began while another was in flight
     thrown |-> NoError,      \* the error the counter threw at this call
     rejected |-> NoError]    \* the error this call rejected with

ProbeIdle ==
    /\ calls = [p \in Calls |-> IdleCall]
    /\ counted = << >>

\* findLongestPrefixWithinTokenLimit is entered: low = 0, high = text.length,
\* best = 0
SearchStart(c) ==
    [c EXCEPT !.pc = "search", !.low = 0, !.high = Len(c.remaining), !.best = 0,
              !.searches = @ + 1]

\* variant: the counter is asked about two candidates at once
IssueProbe_TwoAtOnce(c) ==
    [c EXCEPT !.pc = "await", !.mid = (c.low + c.high) \div 2, !.outstanding = @ + 2]

\* tokenCounter(candidate) is called and awaited
IssueProbe(c) ==
    [c EXCEPT !.pc = "await", !.mid = (c.low + c.high) \div 2, !.outstanding = @ + 1]

\* the search loop has ended: return Math.max(1, best); the part is pushed
\* and cut off remaining
SearchReturns(c) ==
    LET tk == Max(1, c.best)
    IN  [c EXCEPT !.pc = "loop", !.chunks = Append(@, SliceTo(c.remaining, tk)),
                  !.remaining = SliceFrom(c.remaining, tk)]

\* the call runs on to its next await, its return or its rejection
RECURSIVE RunToAwait(_)
RunToAwait(c) ==
    CASE c.pc = "loop" ->
           IF Len(c.remaining) > 0 THEN RunToAwait(SearchStart(c))
           ELSE [c EXCEPT !.pc = "done"]
      [] c.pc = "search" ->
           IF c.low <= c.high THEN IssueProbe(c)
           ELSE RunToAwait(SearchReturns(c))
      [] OTHER -> c

\* splitByTokenLimit is called: chunks = [], remaining = text
CallSplitByTokenLimit(p) ==
    /\ calls[p].pc = "idle"
    /\ \E t \in ProbeTexts, m \in 1..MaxLimit :
         calls' = [calls EXCEPT ![p] = RunToAwait(
                     [@ EXCEPT !.pc = "loop", !.text = t, !.maxTokensPerChunk = m,
                               !.remaining = t,
                               !.overlaps = \E q \in Calls \ {p} :
                                                calls[q].pc = "await"])]
    /\ UNCHANGED counted
    /\ UNCHANGED nonProbeVars

\* variant: remaining is one variable that the calls share
LocalsOf_SharedRemaining(cs, p) == [cs[p] EXCEPT !.remaining = cs[1].remaining]

\* the arguments and locals of call p: each call has its own
LocalsOf(cs, p) == cs[p]

\* the string the awaited counter call was given
Candidate(c) == SliceTo(c.remaining, c.mid)

\* what the counter may answer: as before for a string asked before
Answers(s) ==
    IF s \in DOMAIN counted THEN {counted[s]} ELSE (0..MaxBase) \cup {Throws}

\* counted with the answer v to s added
Answered(s, v) == [x \in DOMAIN counted \cup {s} |-> IF x = s THEN v ELSE counted[x]]

\* the counter call resolves: the rest of the turn of the search loop and
\* what follows it up to the next await
CounterResolves(p) ==
    /\ calls[p].pc = "await"
    /\ \E v \in Answers(Candidate(calls[p])) \ {Throws} :
         LET c == LocalsOf(calls, p)
             table == Answered(Candidate(c), v)
             st == ProbeStep([low |-> c.low, high |-> c.high, best |-> c.best],
                             c.remaining, c.maxTokensPerChunk, TableCounter(table))
         IN  /\ counted' = table
             /\ calls' = [calls EXCEPT ![p] = RunToAwait(
                            [c EXCEPT !.pc = "search", !.low = st.low,
                                      !.high = st.high, !.best = st.best,
                                      !.outstanding = @ - 1])]
    /\ UNCHANGED nonProbeVars

\* variant: the error is caught and the candidate taken as over the limit
OnCounterError_Substitutes(c, e) ==
    [c EXCEPT !.pc = "search", !.thrown = e, !.high = c.mid - 1,
              !.outstanding = @ - 1]

\* the counter call throws: neither function catches, the call rejects
OnCounterError(c, e) ==
    [c EXCEPT !.pc = "rejected", !.thrown = e, !.rejected = e, !.outstanding = @ - 1]

CounterRejects(p) ==
    /\ calls[p].pc = "await"
    /\ Throws \in Answers(Candidate(calls[p]))
    /\ LET c == LocalsOf(calls, p)
       IN  /\ counted' = Answered(Candidate(c), Throws)
           /\ calls' = [calls EXCEPT ![p] =
                          RunToAwait(OnCounterError(c, CounterError(Candidate(c))))]
    /\ UNCHANGED nonProbeVars

(***************************************************************************)
(* One call of splitTextByTokenLimit or splitMarkdownFileIntoTokenChunks   *)
(* with the counter the program gives it: every probe is a call of         *)
(* getTokenCount, which loads the encoder if it is not set, encodes, and   *)
(* falls back to the approximation when the load or the encoding fails.    *)
(***************************************************************************)
\* stands for the text of a special token, which encode refuses
ST == "st"

CountTexts == StringsUpTo({"a", SP, ST}, MaxLen)

\* enc.encode(s) throws
EncodeThrows(s) == \E i \in 1..Len(s) : s[i] = ST

CountIdle ==
    /\ split = IdleCall
    /\ splitFilename = << >>
    /\ tiktokenLoaded = FALSE
    /\ methods = {}

\* the call, up to the first await of the counter
CallSplitWithTokenCount ==
    /\ split.pc = "idle"
    /\ \E t \in CountTexts, m \in 1..MaxSplitLimit, f \in {<< >>, <<"a">>},
          l \in BOOLEAN :
         /\ split' = RunToAwait([split EXCEPT !.pc = "loop", !.text = t,
                                              !.maxTokensPerChunk = m,
                                              !.remaining = t])
         /\ splitFilename' = f
         /\ tiktokenLoaded' = l
    /\ methods' = {}
    /\ UNCHANGED nonCountVars

\* the string the counter hands to getTokenCount for the awaited probe
Measured ==
    IF splitFilename = << >> THEN Candidate(split)
    ELSE totalContent(splitFilename, Candidate(split))

\* the awaited probe is answered with tokens: the rest of the turn of the
\* search loop and what follows it up to the next await
ProbeAnswered(tokens) ==
    LET table == [s \in {Candidate(split)} |-> tokens]
        st == ProbeStep([low |-> split.low, high |-> split.high, best |-> split.best],
                        split.remaining, split.maxTokensPerChunk, TableCounter(table))
    IN  RunToAwait([split EXCEPT !.pc = "search", !.low = st.low, !.high = st.high,
                                 !.best = st.best, !.outstanding = @ - 1])

\* if (!text) return 0
CountOfEmpty ==
    /\ split.pc = "await"
    /\ Measured = << >>
    /\ split' = ProbeAnswered(0)
    /\ UNCHANGED <<splitFilename, tiktokenLoaded, methods>>
    /\ UNCHANGED nonCountVars

\* loadTiktoken returns the encoder, set before or loaded now, and encode
\* returns: Math.ceil(tokens.length / 1.75)
CountExact ==
    /\ split.pc = "await"
    /\ Measured # << >>
    /\ ~EncodeThrows(Measured)
    /\ split' = ProbeAnswered(getTokenCount(Measured, TRUE))
    /\ tiktokenLoaded' = TRUE
    /\ methods' = methods \cup {"exact"}
    /\ UNCHANGED splitFilename
    /\ UNCHANGED nonCountVars

\* the encoder is not set and the load fails: loadTiktoken returns null,
\* getTokenCount returns the approximation
CountAfterFailedLoad ==
    /\ split.pc = "await"
    /\ Measured # << >>
    /\ ~tiktokenLoaded
    /\ split' = ProbeAnswered(getTokenCount(Measured, FALSE))
    /\ methods' = methods \cup {"approximate"}
    /\ UNCHANGED <<splitFilename, tiktokenLoaded>>
    /\ UNCHANGED nonCountVars

\* encode throws: getTokenCount catches and returns the approximation
CountAfterFailedEncode ==
    /\ split.pc = "await"
    /\ Measured # << >>
    /\ EncodeThrows(Measured)
    /\ split' = ProbeAnswered(getApproximateTokenCount(Measured))
    /\ tiktokenLoaded' = TRUE
    /\ methods' = methods \cup {"approximate"}
    /\ UNCHANGED splitFilename
    /\ UNCHANGED nonCountVars

(***************************************************************************)
(* appendToClipboard, called at the end of every copy action; the actions  *)
(* run one after another.                                                  *)
(***************************************************************************)
\* what the actions copy
Outputs == { << >>, <<"a">>, <<"b">> }

ClipIdle ==
    /\ apc = "idle"
    /\ clipboard = << >>
    /\ output = << >>
    /\ append = FALSE
    /\ clipContent = << >>
    /\ before = << >>
    /\ outputs = << >>
    /\ completed = FALSE
    /\ actionsRun = 0

\* an action calls appendToClipboard(clipContent, append)
CallAppendToClipboard ==
    /\ apc = "idle"
    /\ actionsRun < MaxAppends
    /\ \E o \in Outputs, a \in BOOLEAN :
         /\ output' = o
         /\ clipContent' = o
         /\ append' = a
         /\ apc' = IF a THEN "readText" ELSE "writeText"
    /\ before' = clipboard
    /\ completed' = FALSE
    /\ actionsRun' = actionsRun + 1
    /\ UNCHANGED <<clipboard, outputs>>
    /\ UNCHANGED nonClipVars

\* variant: the text on the clipboard is dropped
AppendedContent_Overwrites(currentClipboard, c) == c

\* if (currentClipboard) content = currentClipboard + "\n\n" + content
AppendedContent(currentClipboard, c) ==
    IF currentClipboard # << >> THEN currentClipboard \o <<NL, NL>> \o c ELSE c

\* await vscode.env.clipboard.readText() resolves
ReadTextResolves ==
    /\ apc = "readText"
    /\ clipContent' = AppendedContent(clipboard, clipContent)
    /\ apc' = "writeText"
    /\ UNCHANGED <<clipboard, output, append, before, outputs, completed, actionsRun>>
    /\ UNCHANGED nonClipVars

\* await vscode.env.clipboard.writeText(content) resolves: the action is
\* complete
WriteTextResolves ==
    /\ apc = "writeText"
    /\ clipboard' = clipContent
    /\ outputs' = IF append THEN Append(outputs, output) ELSE <<output>>
    /\ completed' = TRUE
    /\ apc' = "idle"
    /\ UNCHANGED <<output, append, clipContent, before, actionsRun>>
    /\ UNCHANGED nonClipVars

\* readText or writeText rejects: the error is logged and thrown again
ClipboardRejects ==
    /\ apc \in {"readText", "writeText"}
    /\ apc' = "idle"
    /\ UNCHANGED <<clipboard, output, append, clipContent, before, outputs, completed,
                   actionsRun>>
    /\ UNCHANGED nonClipVars

(***************************************************************************)
(* loadTiktoken with its callers getTokenCount, which awaits it, and       *)
(* estimateTokenCount, which starts it in the background.  A caller runs   *)
(* without interruption up to its next await.                              *)
(***************************************************************************)
Callers == {1, 2, 3}

IdleCaller ==
    [pc |-> "idle",            \* "idle", "loading", "waiting", "returned"
     fn |-> "none",            \* the function called
     sawEncoder |-> FALSE,     \* encoder was set when loadTiktoken was entered
     sawLoading |-> FALSE,     \* isLoading was set when loadTiktoken was entered
     gotEncoder |-> FALSE,     \* loadTiktoken returned an encoder
     result |-> "none"]        \* how the count returned was made

LoaderIdle ==
    /\ callers = [p \in Callers |-> IdleCaller]
    /\ moduleEncoder = FALSE
    /\ isLoading = FALSE
    /\ loadsInFlight = 0

\* variant: the load starts whenever no encoder is set
StartsLoad_IgnoresIsLoading(enc, loading) == ~enc

\* loadTiktoken passes both early returns and sets isLoading = true
StartsLoad(enc, loading) == ~enc /\ ~loading

\* getTokenCount(text) for a non-empty text, up to the first await in
\* loadTiktoken or, with the encoder set, to its return
CallGetTokenCount(p) ==
    /\ callers[p].pc = "idle"
    /\ LET c == [callers[p] EXCEPT !.fn = "getTokenCount",
                                   !.sawEncoder = moduleEncoder,
                                   !.sawLoading = isLoading]
       IN  IF moduleEncoder
             THEN /\ callers' = [callers EXCEPT ![p] =
                        [c EXCEPT !.pc = "returned", !.gotEncoder = TRUE,
                                  !.result = "exact"]]
                  /\ UNCHANGED <<isLoading, loadsInFlight>>
           ELSE IF StartsLoad(moduleEncoder, isLoading)
             THEN /\ callers' = [callers EXCEPT ![p] = [c EXCEPT !.pc = "loading"]]
                  /\ isLoading' = TRUE
                  /\ loadsInFlight' = loadsInFlight + 1
           ELSE /\ callers' = [callers EXCEPT ![p] = [c EXCEPT !.pc = "waiting"]]
                /\ UNCHANGED <<isLoading, loadsInFlight>>
    /\ UNCHANGED moduleEncoder
    /\ UNCHANGED nonLoaderVars

\* estimateTokenCount(text) for a non-empty text: it returns the
\* approximation at once and, if (!encoder && !isLoading), leaves a call of
\* loadTiktoken running
CallEstimateTokenCount(p) ==
    /\ callers[p].pc = "idle"
    /\ LET c == [callers[p] EXCEPT !.fn = "estimateTokenCount",
                                   !.sawEncoder = moduleEncoder,
                                   !.sawLoading = isLoading,
                                   !.result = "approximate"]
       IN  IF ~moduleEncoder /\ ~isLoading
             THEN /\ callers' = [callers EXCEPT ![p] = [c EXCEPT !.pc = "loading"]]
                  /\ isLoading' = TRUE
                  /\ loadsInFlight' = loadsInFlight + 1
             ELSE /\ callers' = [callers EXCEPT ![p] = [c EXCEPT !.pc = "returned"]]
                  /\ UNCHANGED <<isLoading, loadsInFlight>>
    /\ UNCHANGED moduleEncoder
    /\ UNCHANGED nonLoaderVars

\* what the caller returns once loadTiktoken has returned enc to it
AfterLoad(c, enc) ==
    [c EXCEPT !.pc = "returned", !.gotEncoder = enc,
              !.result = IF c.fn = "estimateTokenCount" THEN "approximate"
                         ELSE IF enc THEN "exact" ELSE "approximate"]

\* the import resolves: the encoder is made; finally isLoading = false
LoadSucceeds(p) ==
    /\ callers[p].pc = "loading"
    /\ moduleEncoder' = TRUE
    /\ isLoading' = FALSE
    /\ loadsInFlight' = loadsInFlight - 1
    /\ callers' = [callers EXCEPT ![p] = AfterLoad(callers[p], TRUE)]
    /\ UNCHANGED nonLoaderVars

\* variant: the failed load leaves isLoading set
LoadFails_LeavesIsLoading(p) ==
    /\ callers[p].pc = "loading"
    /\ loadsInFlight' = loadsInFlight - 1
    /\ callers' = [callers EXCEPT ![p] = AfterLoad(callers[p], FALSE)]
    /\ UNCHANGED <<moduleEncoder, isLoading>>
    /\ UNCHANGED nonLoaderVars

\* the import or the construction throws: catch returns null; finally
\* isLoading = false
LoadFails(p) ==
    /\ callers[p].pc = "loading"
    /\ isLoading' = FALSE
    /\ loadsInFlight' = loadsInFlight - 1
    /\ callers' = [callers EXCEPT ![p] = AfterLoad(callers[p], FALSE)]
    /\ UNCHANGED moduleEncoder
    /\ UNCHANGED nonLoaderVars

\* the timer of a waiting caller fires with isLoading false: the while loop
\* ends, return encoder.  A timer that fires with isLoading set starts the
\* next timer and changes nothing.
WaiterReturns(p) ==
    /\ callers[p].pc = "waiting"
    /\ ~isLoading
    /\ callers' = [callers EXCEPT ![p] = AfterLoad(callers[p], moduleEncoder)]
    /\ UNCHANGED <<moduleEncoder, isLoading, loadsInFlight>>
    /\ UNCHANGED nonLoaderVars

(***************************************************************************)
(* The command splitClipboardByTokens: its prompts, handleFileBasedContent *)
(* and handlePlainTextContent, createEditorsForChunks and                  *)
(* interactiveClipboardCopy.  One action per answer of the user; the       *)
(* action runs the command up to the next prompt.                          *)
(***************************************************************************)
Dismissed == "undefined"   \* the prompt was closed without an answer

\* what the clipboard holds when the command is invoked: nothing, or up to
\* MaxItems copied files and pieces of plain text
PastedItems ==
    {CopiedBlock(<<"a">>, c) : c \in FileContents \ {<< >>}} \cup {<<"a", SP, "b">>}

PastedContents ==
    {Join(items) : items \in UNION {[1..n -> PastedItems] : n \in 0..MaxItems}}

CommandIdle ==
    /\ cmdpc = "idle"
    /\ pastedContent = << >>
    /\ cmdEncoder = FALSE
    /\ cmdLimit = 1
    /\ cmdPreferFiles = FALSE
    /\ cmdFiles = << >>
    /\ cmdChunks = << >>
    /\ dismissed = {}
    /\ copyIndex = 0
    /\ written = << >>
    /\ chosenNext = {}
    /\ systemClipboard = << >>
    /\ editorsOpened = 0
    /\ allCopied = FALSE

\* the command is invoked: readText, "Clipboard is empty." or the count
\* and the prompt "Do you want to split it?"
RunSplitClipboardByTokens ==
    /\ cmdpc = "idle"
    /\ \E c \in PastedContents, e \in BOOLEAN :
         /\ pastedContent' = c
         /\ systemClipboard' = c
         /\ cmdEncoder' = e
         /\ cmdpc' = IF c = << >> THEN "ended" ELSE "confirm"
    /\ UNCHANGED <<cmdLimit, cmdPreferFiles, cmdFiles, cmdChunks, dismissed,
                   copyIndex, written, chosenNext, editorsOpened, allCopied>>
    /\ UNCHANGED nonCommandVars

\* "Do you want to split it?": if (proceed !== "Yes") return
AnswerConfirmation ==
    /\ cmdpc = "confirm"
    /\ \E a \in {"Yes", "No", Dismissed} :
         IF a # "Yes"
           THEN /\ cmdpc' = "ended"
                /\ dismissed' = dismissed \cup {"confirmation"}
           ELSE /\ cmdpc' = "limit"
                /\ UNCHANGED dismissed
    /\ UNCHANGED <<pastedContent, cmdEncoder, cmdLimit, cmdPreferFiles,
                   cmdFiles, cmdChunks, copyIndex, written, chosenNext,
                   systemClipboard, editorsOpened, allCopied>>
    /\ UNCHANGED nonCommandVars

\* the input box: if (!maxTokensInput) return
AnswerTokenLimit ==
    /\ cmdpc = "limit"
    /\ \/ /\ cmdpc' = "ended"
          /\ dismissed' = dismissed \cup {"token limit"}
          /\ UNCHANGED cmdLimit
       \/ \E m \in 1..MaxSplitLimit :
             /\ cmdLimit' = m
             /\ cmdpc' = "strategy"
             /\ UNCHANGED dismissed
    /\ UNCHANGED <<pastedContent, cmdEncoder, cmdPreferFiles, cmdFiles,
                   cmdChunks, copyIndex, written, chosenNext,
                   systemClipboard, editorsOpened, allCopied>>
    /\ UNCHANGED nonCommandVars

\* the normalizing loop of handleFileBasedContent over all files
RECURSIVE NormalizeLoop(_, _, _, _)
NormalizeLoop(fs, i, maxTokens, enc) ==
    IF i > Len(fs) THEN << >>
    ELSE NormalizedRecords(fs[i], maxTokens, enc)
            \o NormalizeLoop(fs, i + 1, maxTokens, enc)

\* the strategy quick pick: preferFiles = strategy?.label === "Prefer
\* file-based grouping"; then the quick parse and, up to the prompt
\* "Proceed", handleFileBasedContent or handlePlainTextContent
AnswerStrategy ==
    /\ cmdpc = "strategy"
    /\ \E pick \in {"Prefer file-based grouping", "Strict token chunks", Dismissed} :
         LET preferred == pick = "Prefer file-based grouping"
             quick == parseClipboardFiles(pastedContent)
             byFiles == preferred /\ Len(quick) > 0
         IN  /\ cmdPreferFiles' = byFiles
             /\ cmdFiles' = IF byFiles
                              THEN NormalizeLoop(
                                     parseClipboardFilesAsync(pastedContent, cmdEncoder),
                                     1, cmdLimit, cmdEncoder)
                              ELSE << >>
             /\ dismissed' = IF pick = Dismissed
                               THEN dismissed \cup {"strategy"} ELSE dismissed
    /\ cmdpc' = "proceed"
    /\ UNCHANGED <<pastedContent, cmdEncoder, cmdLimit, cmdChunks, copyIndex,
                   written, chosenNext, systemClipboard, editorsOpened, allCopied>>
    /\ UNCHANGED nonCommandVars

\* the chunks of either handler after the prompt "Proceed"
ChunksOf(byFiles, fs, c, maxTokens, enc) ==
    IF byFiles
      THEN LET gs == groupFilesByTokenLimit(fs, maxTokens)
           IN  [i \in 1..Len(gs) |-> filesToMarkdown(gs[i])]
      ELSE splitTextByTokenLimit(c, maxTokens, enc)

\* "Proceed ...?": if (proceed !== "Yes") return; else the chunks are made
\* and the output quick pick is shown
AnswerProceed ==
    /\ cmdpc = "proceed"
    /\ \E a \in {"Yes", "No", Dismissed} :
         IF a # "Yes"
           THEN /\ cmdpc' = "ended"
                /\ dismissed' = dismissed \cup {"proceed"}
                /\ UNCHANGED cmdChunks
           ELSE /\ cmdpc' = "output"
                /\ cmdChunks' = ChunksOf(cmdPreferFiles, cmdFiles, pastedContent,
                                         cmdLimit, cmdEncoder)
                /\ UNCHANGED dismissed
    /\ UNCHANGED <<pastedContent, cmdEncoder, cmdLimit, cmdPreferFiles,
                   cmdFiles, copyIndex, written, chosenNext, systemClipboard,
                   editorsOpened, allCopied>>
    /\ UNCHANGED nonCommandVars

\* openEditors = output?.label === "Open in editors"; every other outcome
\* of the quick pick runs interactiveClipboardCopy
StartsInteractiveCopy(pick) == pick # "Open in editors"

\* the output quick pick, then createEditorsForChunks up to its first
\* await, or interactiveClipboardCopy up to its first prompt
AnswerOutputMethod ==
    /\ cmdpc = "output"
    /\ \E pick \in {"Open in editors", "Interactive clipboard copy", Dismissed} :
         /\ dismissed' = IF pick = Dismissed
                           THEN dismissed \cup {"output method"} ELSE dismissed
         /\ IF ~StartsInteractiveCopy(pick)
               THEN /\ cmdpc' = IF Len(cmdChunks) = 0 THEN "ended" ELSE "editors"
                    /\ UNCHANGED <<copyIndex, written, systemClipboard>>
             ELSE IF Len(cmdChunks) = 0
               THEN /\ cmdpc' = "ended"
                    /\ UNCHANGED <<copyIndex, written, systemClipboard>>
             ELSE /\ copyIndex' = 0
                  /\ systemClipboard' = cmdChunks[1]
                  /\ written' = Append(written, 0)
                  /\ cmdpc' = "copied"
    /\ UNCHANGED <<pastedContent, cmdEncoder, cmdLimit, cmdPreferFiles,
                   cmdFiles, cmdChunks, chosenNext, editorsOpened, allCopied>>
    /\ UNCHANGED nonCommandVars

\* one turn of the loop of createEditorsForChunks: the document is opened
\* and shown; after the last one the summary is shown
OpenEditor ==
    /\ cmdpc = "editors"
    /\ editorsOpened < Len(cmdChunks)
    /\ editorsOpened' = editorsOpened + 1
    /\ cmdpc' = IF editorsOpened + 1 = Len(cmdChunks) THEN "ended" ELSE "editors"
    /\ UNCHANGED <<pastedContent, cmdEncoder, cmdLimit, cmdPreferFiles,
                   cmdFiles, cmdChunks, dismissed, copyIndex, written,
                   chosenNext, systemClipboard, allCopied>>
    /\ UNCHANGED nonCommandVars

\* variant: the loop goes on for every answer but "Cancel"
CopiesNext_UnlessCancelled(action) == action # "Cancel"

\* while (action === "Copy next")
CopiesNext(action) == action = "Copy next"

\* the prompt "... Copy next?" is answered: the loop of
\* interactiveClipboardCopy up to the next prompt or the return
AnswerCopyNext ==
    /\ cmdpc = "copied"
    /\ \E action \in {"Copy next", "Cancel", Dismissed} :
         IF CopiesNext(action)
           THEN /\ chosenNext' = IF action = "Copy next"
                                   THEN chosenNext \cup {copyIndex} ELSE chosenNext
                /\ copyIndex' = copyIndex + 1
                /\ IF copyIndex + 1 >= Len(cmdChunks)
                      THEN /\ allCopied' = TRUE
                           /\ cmdpc' = "ended"
                           /\ UNCHANGED <<written, systemClipboard>>
                      ELSE /\ systemClipboard' = cmdChunks[copyIndex + 2]
                           /\ written' = Append(written, copyIndex + 1)
                           /\ UNCHANGED <<cmdpc, allCopied>>
           ELSE /\ cmdpc' = "ended"
                /\ UNCHANGED <<copyIndex, written, chosenNext, systemClipboard,
                               allCopied>>
    /\ UNCHANGED <<pastedContent, cmdEncoder, cmdLimit, cmdPreferFiles,
                   cmdFiles, cmdChunks, dismissed, editorsOpened>>
    /\ UNCHANGED nonCommandVars

(***************************************************************************)
(* saveEditorTemplate and deleteEditorTemplate over the store of one       *)
(* workspace.  A command runs without interruption up to its next dialog;  *)
(* several commands may be waiting at their dialogs at once.               *)
(***************************************************************************)
Commands == {1, 2, 3}
TemplateNames == {"t1", "t2"}
OpenFileSets == {"f", "g"}      \* what getCurrentOpenFiles returned
Absent == "absent"              \* no entry under that template name

IdleCommand ==
    [pc |-> "idle",             \* "idle", "name", "overwrite", "pick",
                                \* "confirm", "done"
     fn |-> "none",
     templates |-> [n \in TemplateNames |-> Absent],  \* what readTemplates returned
     templateName |-> "none",
     openFiles |-> "none",
     wrote |-> FALSE,           \* writeTemplates was called
     before |-> [n \in TemplateNames |-> Absent],     \* the store before the write
     after |-> [n \in TemplateNames |-> Absent]]      \* the store after the write

StoreIdle ==
    /\ templatesFile = [n \in TemplateNames |-> Absent]
    /\ cmds = [p \in Commands |-> IdleCommand]

\* readTemplates: the parsed content of the file
readTemplates == templatesFile

\* writeTemplates(templates) by command c: the file is replaced
Written(c, templates) ==
    [c EXCEPT !.pc = "done", !.wrote = TRUE, !.before = templatesFile,
              !.after = templates]

\* saveEditorTemplate up to the input box for the name
CallSaveEditorTemplate(p) ==
    /\ cmds[p].pc = "idle"
    /\ \E fs \in OpenFileSets :
         cmds' = [cmds EXCEPT ![p] =
                    [cmds[p] EXCEPT !.pc = "name", !.fn = "saveEditorTemplate",
                                    !.openFiles = fs]]
    /\ UNCHANGED templatesFile
    /\ UNCHANGED nonStoreVars

\* the name is entered or the box dismissed: readTemplates, then the
\* overwrite warning if the name exists, else the write
AnswerTemplateName(p) ==
    /\ cmds[p].pc = "name"
    /\ \/ /\ cmds' = [cmds EXCEPT ![p].pc = "done"]
          /\ UNCHANGED templatesFile
       \/ \E name \in TemplateNames :
             LET c == [cmds[p] EXCEPT !.templateName = name,
                                      !.templates = readTemplates]
             IN  IF c.templates[name] # Absent
                   THEN /\ cmds' = [cmds EXCEPT ![p] = [c EXCEPT !.pc = "overwrite"]]
                        /\ UNCHANGED templatesFile
                   ELSE LET t == [c.templates EXCEPT ![name] = c.openFiles]
                        IN  /\ templatesFile' = t
                            /\ cmds' = [cmds EXCEPT ![p] = Written(c, t)]
    /\ UNCHANGED nonStoreVars

\* "Overwrite?": Yes writes the templates read before the warning with
\* the entry replaced
AnswerOverwrite(p) ==
    /\ cmds[p].pc = "overwrite"
    /\ \E a \in {"Yes", "No", Dismissed} :
         IF a # "Yes"
           THEN /\ cmds' = [cmds EXCEPT ![p].pc = "done"]
                /\ UNCHANGED templatesFile
           ELSE LET c == cmds[p]
                    t == [c.templates EXCEPT ![c.templateName] = c.openFiles]
                IN  /\ templatesFile' = t
                    /\ cmds' = [cmds EXCEPT ![p] = Written(c, t)]
    /\ UNCHANGED nonStoreVars

\* deleteEditorTemplate up to the quick pick: readTemplates; it returns
\* if the workspace has no template
CallDeleteEditorTemplate(p) ==
    /\ cmds[p].pc = "idle"
    /\ LET c == [cmds[p] EXCEPT !.fn = "deleteEditorTemplate",
                                !.templates = readTemplates]
       IN  cmds' = [cmds EXCEPT ![p] =
                [c EXCEPT !.pc = IF \A n \in TemplateNames : c.templates[n] = Absent
                                   THEN "done" ELSE "pick"]]
    /\ UNCHANGED templatesFile
    /\ UNCHANGED nonStoreVars

\* a template of the list is picked or the quick pick dismissed
AnswerTemplatePick(p) ==
    /\ cmds[p].pc = "pick"
    /\ \/ cmds' = [cmds EXCEPT ![p].pc = "done"]
       \/ \E name \in TemplateNames :
             /\ cmds[p].templates[name] # Absent
             /\ cmds' = [cmds EXCEPT ![p] =
                    [cmds[p] EXCEPT !.pc = "confirm", !.templateName = name]]
    /\ UNCHANGED templatesFile
    /\ UNCHANGED nonStoreVars

\* "Delete template ...?": Delete writes the templates read at the start
\* of the command without the entry
AnswerDeleteConfirm(p) ==
    /\ cmds[p].pc = "confirm"
    /\ \E a \in {"Delete", "Cancel", Dismissed} :
         IF a # "Delete"
           THEN /\ cmds' = [cmds EXCEPT ![p].pc = "done"]
                /\ UNCHANGED templatesFile
           ELSE LET c == cmds[p]
                    t == [c.templates EXCEPT ![c.templateName] = Absent]
                IN  /\ templatesFile' = t
                    /\ cmds' = [cmds EXCEPT ![p] = Written(c, t)]
    /\ UNCHANGED nonStoreVars

(***************************************************************************)
(* copyFolder: the batch loop over the selected files and its calls of     *)
(* appendToClipboard.  The markdown block of a file is one element of the  *)
(* text; the loop never looks inside it.                                   *)
(***************************************************************************)
BATCH_SIZE == 50

PreviousClipboards == { << >>, <<"p">> }

FolderIdle ==
    /\ folderpc = "idle"
    /\ selectedItems = 0
    /\ folderAppend = FALSE
    /\ previousClipboard = << >>
    /\ folderClipboard = << >>
    /\ batchStart = 0
    /\ processedFiles = 0
    /\ markdownContent = << >>

\* the block readFileAsMarkdown returns for the k-th selected file
readFileAsMarkdown(k) == ToString(k)

\* batchContent.join("") for selectedItems.slice(i, i + BATCH_SIZE)
BatchContent(i, n) ==
    [k \in 1..(Min(i + BATCH_SIZE, n) - i) |-> readFileAsMarkdown(i + k)]

\* the clipboard after appendToClipboard(c, app) has completed
appendToClipboard(current, c, app) ==
    IF app THEN AppendedContent(current, c) ELSE c

\* variant: the flush in the loop appends only if the command does
FlushAppends_OnlyIfAsked(app, i) == app

\* append || i > 0
FlushAppends(app, i) == app \/ i > 0

\* the folder is chosen and the files are selected; with no selection the
\* command returns
CallCopyFolder ==
    /\ folderpc = "idle"
    /\ \E n \in 0..MaxSelected, app \in BOOLEAN, prev \in PreviousClipboards :
         /\ selectedItems' = n
         /\ folderAppend' = app
         /\ previousClipboard' = prev
         /\ folderClipboard' = prev
         /\ folderpc' = IF n = 0 THEN "returned" ELSE "batches"
    /\ UNCHANGED <<batchStart, processedFiles, markdownContent>>
    /\ UNCHANGED nonFolderVars

\* one turn of the batch loop: the batch is read and added to
\* markdownContent; every fourth batch, from the first on, the content is
\* put on the clipboard and cleared
ProcessBatch ==
    /\ folderpc = "batches"
    /\ batchStart < selectedItems
    /\ LET content == markdownContent \o BatchContent(batchStart, selectedItems)
       IN  IF batchStart % (BATCH_SIZE * 4) = 0
             THEN /\ folderClipboard' = appendToClipboard(folderClipboard, content,
                                            FlushAppends(folderAppend, batchStart))
                  /\ markdownContent' = << >>
             ELSE /\ markdownContent' = content
                  /\ UNCHANGED folderClipboard
    /\ processedFiles' = processedFiles + Min(batchStart + BATCH_SIZE, selectedItems) - batchStart
    /\ batchStart' = batchStart + BATCH_SIZE
    /\ UNCHANGED <<folderpc, selectedItems, folderAppend, previousClipboard>>
    /\ UNCHANGED nonFolderVars

\* token.isCancellationRequested at the top of a turn: return
CancelCopyFolder ==
    /\ folderpc = "batches"
    /\ batchStart < selectedItems
    /\ folderpc' = "returned"
    /\ UNCHANGED <<selectedItems, folderAppend, previousClipboard,
                   folderClipboard, batchStart, processedFiles, markdownContent>>
    /\ UNCHANGED nonFolderVars

\* after the loop: the remaining content is appended
FinalAppend ==
    /\ folderpc = "batches"
    /\ batchStart >= selectedItems
    /\ folderClipboard' =
          IF markdownContent # << >>
            THEN appendToClipboard(folderClipboard, markdownContent,
                                   folderAppend \/ processedFiles > BATCH_SIZE)
            ELSE folderClipboard
    /\ folderpc' = "copied"
    /\ UNCHANGED <<selectedItems, folderAppend, previousClipboard, batchStart,
                   processedFiles, markdownContent>>
    /\ UNCHANGED nonFolderVars

(***************************************************************************)
(* Specifications: one per operation, the other operations at rest.        *)
(***************************************************************************)
vars == <<splitVars, groupVars, fileVars, parseVars, probeVars, countVars,
         clipVars, loaderVars, commandVars, storeVars, folderVars>>

AllIdle ==
    /\ SplitIdle /\ GroupIdle /\ FileIdle /\ ParseIdle /\ ProbeIdle /\ CountIdle
    /\ ClipIdle
    /\ LoaderIdle
    /\ CommandIdle
    /\ StoreIdle
    /\ FolderIdle

SplitInit == AllIdle

SplitNext ==
    \/ CallSplit
    \/ SplitIteration
    \/ SplitReturn

SplitSpec == SplitInit /\ [][SplitNext]_vars

GroupInit == AllIdle

GroupNext ==
    \/ CallGroup
    \/ GroupIteration
    \/ GroupReturn

GroupSpec == GroupInit /\ [][GroupNext]_vars

FileInit == AllIdle

FileNext ==
    \/ ReadClipboard
    \/ ParseFiles
    \/ NormalizeIteration
    \/ GroupAndRender
    \/ SplitPlainText
    \/ ParseRendered

FileSpec == FileInit /\ [][FileNext]_vars

ParseInit == AllIdle

ParseNext ==
    \/ CallParse
    \/ ParseIteration
    \/ ParseReturn

ParseSpec == ParseInit /\ [][ParseNext]_vars

ProbeInit == AllIdle

ProbeNext ==
    \E p \in Calls :
        \/ CallSplitByTokenLimit(p)
        \/ CounterResolves(p)
        \/ CounterRejects(p)

ProbeSpec == ProbeInit /\ [][ProbeNext]_vars

CountInit == AllIdle

CountNext ==
    \/ CallSplitWithTokenCount
    \/ CountOfEmpty
    \/ CountExact
    \/ CountAfterFailedLoad
    \/ CountAfterFailedEncode

CountSpec == CountInit /\ [][CountNext]_vars

ClipInit == AllIdle

ClipNext ==
    \/ CallAppendToClipboard
    \/ ReadTextResolves
    \/ WriteTextResolves
    \/ ClipboardRejects

ClipSpec == ClipInit /\ [][ClipNext]_vars

LoaderInit == AllIdle

LoaderNext ==
    \E p \in Callers :
        \/ CallGetTokenCount(p)
        \/ CallEstimateTokenCount(p)
        \/ LoadSucceeds(p)
        \/ LoadFails(p)
        \/ WaiterReturns(p)

LoaderSpec == LoaderInit /\ [][LoaderNext]_vars

\* timers fire and a load that was started settles
LoaderFairSpec ==
    /\ LoaderSpec
    /\ \A p \in Callers :
          /\ WF_vars(LoadSucceeds(p) \/ LoadFails(p))
          /\ WF_vars(WaiterReturns(p))

CommandInit == AllIdle

CommandNext ==
    \/ RunSplitClipboardByTokens
    \/ AnswerConfirmation
    \/ AnswerTokenLimit
    \/ AnswerStrategy
    \/ AnswerProceed
    \/ AnswerOutputMethod
    \/ OpenEditor
    \/ AnswerCopyNext

CommandSpec == CommandInit /\ [][CommandNext]_vars

StoreInit == AllIdle

StoreNext ==
    \E p \in Commands :
        \/ CallSaveEditorTemplate(p)
        \/ AnswerTemplateName(p)
        \/ AnswerOverwrite(p)
        \/ CallDeleteEditorTemplate(p)
        \/ AnswerTemplatePick(p)
        \/ AnswerDeleteConfirm(p)

StoreSpec == StoreInit /\ [][StoreNext]_vars

FolderInit == AllIdle

FolderNext ==
    \/ CallCopyFolder
    \/ ProcessBatch
    \/ CancelCopyFolder
    \/ FinalAppend

FolderSpec == FolderInit /\ [][FolderNext]_vars

(***************************************************************************)
(* Properties of splitByTokenLimit and findLongestPrefixWithinTokenLimit.  *)
(***************************************************************************)
Fits(s, k) == Count(tokenCounter, SliceTo(s, k)) <= maxTokensPerChunk

\* the counter is non-decreasing along the prefixes 1..Len(s) of s
MonotoneOn(s) ==
    \A j, k \in 1..Len(s) :
        j <= k => Count(tokenCounter, SliceTo(s, j)) <= Count(tokenCounter, SliceTo(s, k))

SearchReturned == pc # "idle" /\ iterations >= 1

\* C1: the chunks returned by splitByTokenLimit, joined in order, are the
\* text, for every limit >= 1 and every counter, monotonic or not.
C1_RoundTrip ==
    /\ pc = "loop" => Join(chunks) \o remaining = text
    /\ pc = "done" => Join(chunks) = text

C1_Witness ==
    /\ pc = "done"
    /\ Len(chunks) >= 2
    /\ ~MonotoneOn(text)
    /\ \E i, j \in 1..Len(text) : text[i] # text[j]

\* C2: every chunk of splitByTokenLimit counts at most the limit or is a
\* single character, for every counter, monotonic or not.
C2_BoundCompliance ==
    \A i \in 1..Len(chunks) :
        \/ Count(tokenCounter, chunks[i]) <= maxTokensPerChunk
        \/ Len(chunks[i]) = 1

C2_Witness ==
    /\ pc = "done"
    /\ ~MonotoneOn(text)
    /\ \E i, j \in 1..Len(chunks) :
         /\ Len(chunks[i]) = 1
         /\ Count(tokenCounter, chunks[i]) > maxTokensPerChunk
         /\ Len(chunks[j]) >= 2

\* C3: every turn of the loop takes at least one character off remaining
\* (every chunk is non-empty), so the loop takes at most Len(text) turns;
\* the empty text takes none and returns the empty sequence.
C3_ForwardProgress ==
    /\ iterations = Len(chunks)
    /\ \A i \in 1..Len(chunks) : Len(chunks[i]) >= 1
    /\ pc # "idle" => Len(remaining) + iterations <= Len(text)
    /\ iterations <= Len(text)
    /\ (pc = "done" /\ text = << >>) => (iterations = 0 /\ chunks = << >>)

C3_Witness ==
    /\ pc = "done"
    /\ Len(text) = MaxLen
    /\ iterations = Len(text)

\* the largest k in 1..Len(s) whose prefix fits, 1 when there is none
LargestFitting(s) ==
    IF \E k \in 1..Len(s) : Fits(s, k)
      THEN CHOOSE k \in 1..Len(s) :
               Fits(s, k) /\ \A k2 \in 1..Len(s) : Fits(s, k2) => k2 <= k
      ELSE 1

\* C8: for a counter that is non-decreasing along the prefixes of a
\* non-empty text, findLongestPrefixWithinTokenLimit returns the largest k
\* in 1..Len(text) whose prefix counts at most maxTokens, and 1 when no
\* prefix does.
C8_MonotoneLargest ==
    (SearchReturned /\ MonotoneOn(searched)) => take = LargestFitting(searched)

C8_Witness ==
    /\ SearchReturned
    /\ MonotoneOn(searched)
    /\ Len(searched) = MaxLen
    /\ take >= 2
    /\ take < Len(searched)
    /\ ~Fits(searched, take + 1)

\* C9 as claimed: for every counter, monotonic or not, no prefix longer than
\* the one returned counts at most maxTokens.
C9_NoLongerPrefixFits ==
    SearchReturned =>
        ~ \E k \in (take + 1)..Len(searched) : Fits(searched, k)

\* C9 amended: no longer prefix fits when the counter is non-decreasing along
\* the prefixes; for any counter, when the returned prefix fits and is not the
\* whole text, the prefix one character longer does not fit.
C9_LongestOrLocallyLongest ==
    SearchReturned =>
        /\ MonotoneOn(searched) =>
               ~ \E k \in (take + 1)..Len(searched) : Fits(searched, k)
        /\ (Fits(searched, take) /\ take < Len(searched)) =>
               ~Fits(searched, take + 1)

C9_Witness ==
    /\ SearchReturned
    /\ ~MonotoneOn(searched)
    /\ Fits(searched, take)
    /\ take < Len(searched)
    /\ ~Fits(searched, take + 1)
    /\ \E k \in (take + 2)..Len(searched) : Fits(searched, k)

(***************************************************************************)
(* Properties of groupFilesByTokenLimit.                                   *)
(***************************************************************************)
RECURSIVE SumTokens(_)
SumTokens(g) == IF g = << >> THEN 0 ELSE Head(g).tokenCount + SumTokens(Tail(g))

\* C4: the groups returned by groupFilesByTokenLimit, flattened in order,
\* are the input records: same records, same order, oversized ones included.
C4_GroupingPreservesOrder ==
    /\ gpc = "loop" => Join(groups) \o currentGroup = SubSeq(files, 1, fileIndex)
    /\ gpc = "done" => Join(groups) = files

C4_Witness ==
    /\ gpc = "done"
    /\ Len(files) = MaxFiles
    /\ \E i \in 1..Len(files) : files[i].tokenCount > maxTokensPerGroup
    /\ \E i \in 1..Len(groups) : Len(groups[i]) >= 2
    /\ \E i, j \in 1..Len(files) : files[i] # files[j]

\* C5: for records with tokenCount >= 0, a group whose members sum to more
\* than the limit is a single record whose own tokenCount exceeds the limit;
\* every group of more than one member sums to at most the limit.
C5_GroupingBound ==
    gpc = "done" =>
        \A i \in 1..Len(groups) :
            /\ Len(groups[i]) > 1 => SumTokens(groups[i]) <= maxTokensPerGroup
            /\ SumTokens(groups[i]) > maxTokensPerGroup =>
                   /\ Len(groups[i]) = 1
                   /\ groups[i][1].tokenCount > maxTokensPerGroup

C5_Witness ==
    /\ gpc = "done"
    /\ \E i, j \in 1..Len(groups) :
         /\ Len(groups[i]) >= 2
         /\ SumTokens(groups[i]) = maxTokensPerGroup
         /\ Len(groups[j]) = 1
         /\ SumTokens(groups[j]) > maxTokensPerGroup

(***************************************************************************)
(* Properties of the file-based split of the clipboard.                    *)
(***************************************************************************)
Normalizing == fpc \in {"normalize", "rendered", "reparsed"}
Rendered == fpc \in {"rendered", "reparsed"}

\* C6: no output chunk of handleFileBasedContent counts more tokens than the
\* limit the user entered.
C6_ChunksWithinLimit ==
    Rendered =>
        \A i \in 1..Len(chunkStrings) :
            getTokenCount(chunkStrings[i], encoder) <= maxTokensPerSplit

\* C7: after normalization every record has tokenCount <= limit, or its
\* content is a single character.
C7_NormalizerBound ==
    Normalizing =>
        \A i \in 1..Len(normalizedFiles) :
            \/ normalizedFiles[i].tokenCount <= maxTokensPerSplit
            \/ Len(normalizedFiles[i].content) = 1

NameAndContent(fs) ==
    [i \in 1..Len(fs) |-> [filename |-> fs[i].filename, content |-> fs[i].content]]

\* C10: parsing the concatenation of the rawMarkdown of the records the
\* program created returns the same filename/content pairs in the same order.
C10_ParserRoundTrip ==
    fpc = "reparsed" => NameAndContent(reparsed) = NameAndContent(normalizedFiles)

(***************************************************************************)
(* Claims about the records of the parser and of the normalizer.           *)
(***************************************************************************)
\* C11: every record made by parseClipboardFiles, parseClipboardFilesAsync or
\* splitMarkdownFileIntoTokenChunks carries as tokenCount the count that its
\* maker's counting function gives for the record's own rawMarkdown.
C11_TokenCountOfRawMarkdown ==
    /\ \A i \in 1..Len(parsedFiles) :
          parsedFiles[i].tokenCount = estimateTokenCount(parsedFiles[i].rawMarkdown)
    /\ \A i \in 1..Len(accurateParsedFiles) :
          accurateParsedFiles[i].tokenCount =
              getTokenCount(accurateParsedFiles[i].rawMarkdown, encoder)
    /\ \A i \in 1..Len(normalizedFiles) :
          normalizedFiles[i].tokenCount =
              getTokenCount(normalizedFiles[i].rawMarkdown, encoder)

\* norms is origs with every record over the limit replaced, at its
\* position, by a run of records of the same filename whose contents
\* concatenate to its content, and every other record kept as it is
RECURSIVE Normalizes(_, _, _)
Normalizes(origs, norms, limit) ==
    IF origs = << >> THEN norms = << >>
    ELSE LET f == Head(origs)
         IN  IF f.tokenCount <= limit
               THEN /\ norms # << >>
                    /\ Head(norms) = f
                    /\ Normalizes(Tail(origs), Tail(norms), limit)
               ELSE \E k \in 0..Len(norms) :
                      /\ \A i \in 1..k : norms[i].filename = f.filename
                      /\ Join([i \in 1..k |-> norms[i].content]) = f.content
                      /\ Normalizes(Tail(origs), SubSeq(norms, k + 1, Len(norms)), limit)

\* C12: the normalizing loop keeps order and content: a record within the
\* limit passes through unchanged at its position, a record over the limit is
\* replaced at its position by a contiguous run of records with its filename
\* whose contents concatenated are its content.
C12_NormalizationPreserves ==
    Normalizing =>
        Normalizes(SubSeq(accurateParsedFiles, 1, nextFile), normalizedFiles,
                   maxTokensPerSplit)

\* a file within the limit stays between two files that were each split in
\* two or more records
C12_Witness ==
    /\ fpc = "normalize"
    /\ nextFile = Len(accurateParsedFiles)
    /\ \E i \in 1..Len(accurateParsedFiles) :
          accurateParsedFiles[i].tokenCount <= maxTokensPerSplit
    /\ \E i \in 1..Len(accurateParsedFiles) :
          accurateParsedFiles[i].tokenCount > maxTokensPerSplit
    /\ Len(accurateParsedFiles) = 2
    /\ Len(normalizedFiles) >= 3

(***************************************************************************)
(* Claims about one call of a parser.                                      *)
(***************************************************************************)
HasLabel(m) == Trim(m.label) # << >>

\* C13: the parser returns one record for every matched fenced region whose
\* trimmed label is not empty, in the order of the regions in the text, and
\* none for a region whose label is empty or blank; a text without a fenced
\* region gives the empty sequence.
C13_LabelFilter ==
    LET labelled == SelectSeq(matched, HasLabel)
    IN  /\ Len(parserFiles) = Len(labelled)
        /\ \A i \in 1..Len(labelled) :
              /\ parserFiles[i].filename = Trim(labelled[i].label)
              /\ parserFiles[i].content = labelled[i].body
              /\ parserFiles[i].rawMarkdown = labelled[i].whole \o <<NL, NL>>
        /\ \A i \in 1..Len(matched) :
              /\ matched[i].whole =
                     SubSeq(parseContent, matched[i].index, matched[i].lastIndex - 1)
              /\ i < Len(matched) => matched[i].lastIndex <= matched[i + 1].index
        /\ (ppc = "done" /\ FenceFrom(parseContent, 1) = 0) => parserFiles = << >>

\* a returned call that matched a region with a blank label and a labelled
\* region after it
C13_Witness ==
    /\ ppc = "done"
    /\ Len(matched) = 2
    /\ matched[1].label = <<SP>>
    /\ HasLabel(matched[2])
    /\ Len(parserFiles) = 1

\* position in the text of the i-th piece it was put together from
ItemStart(items, i) == 1 + Len(Join(SubSeq(items, 1, i - 1)))

\* C14: a labelled fence that is opened and never closed is not matched by
\* the parser, wherever it stands in the text, also with well-formed blocks
\* after it.
C14_UnclosedFenceNotMatched ==
    \A i \in 1..Len(parseItems) :
        parseItems[i] = UnclosedBlock
        => \A j \in 1..Len(matched) : matched[j].index # ItemStart(parseItems, i)

(***************************************************************************)
(* Claims about calls of splitByTokenLimit interleaved at their awaits.    *)
(***************************************************************************)
\* C15: when the injected counter throws on a probe of a call of
\* splitByTokenLimit, the call rejects with that same error and returns no
\* chunks: it issues no further probe and never reaches its return.
C15_CounterFailurePropagates ==
    \A p \in Calls :
        /\ calls[p].thrown # NoError
             => /\ calls[p].pc = "rejected"
                /\ calls[p].rejected = calls[p].thrown
                /\ calls[p].outstanding = 0
        /\ calls[p].pc = "done" => calls[p].thrown = NoError
        /\ calls[p].pc = "rejected" => calls[p].thrown # NoError

\* a call that had already fixed a chunk rejects
C15_Witness ==
    \E p \in Calls :
        /\ calls[p].pc = "rejected"
        /\ Len(calls[p].chunks) >= 1
        /\ calls[p].rejected = CounterError(Candidate(calls[p]))

\* C17: within one call at most one counter call is outstanding, a probe is
\* issued only when the one before it has been answered, and the search for
\* a chunk is entered only when the chunks before it are fixed.
C17_SequentialCounterUse ==
    \A p \in Calls :
        LET c == calls[p]
            searching == c.pc \in {"await", "rejected"}
        IN  /\ c.outstanding \in {0, 1}
            /\ c.outstanding = 1 <=> c.pc = "await"
            /\ c.searches = Len(c.chunks) + (IF searching THEN 1 ELSE 0)
            /\ searching => Join(c.chunks) \o c.remaining = c.text

\* both calls await the counter at once, each with a chunk fixed before
C17_Witness ==
    \A p \in Calls :
        /\ calls[p].pc = "await"
        /\ Len(calls[p].chunks) >= 1

\* C18: a call of splitByTokenLimit that shares a deterministic counter with
\* another call in flight returns the chunks it returns when run alone.
C18_InterleavingIndependence ==
    \A p \in Calls :
        calls[p].pc = "done"
        => calls[p].chunks =
               splitByTokenLimit(calls[p].text, calls[p].maxTokensPerChunk,
                                 TableCounter(counted))

\* two calls that were in flight together have both returned two or more
\* chunks
C18_Witness ==
    /\ \A p \in Calls : calls[p].pc = "done" /\ Len(calls[p].chunks) >= 2
    /\ \E p \in Calls : calls[p].overlaps
    /\ calls[1].chunks # calls[2].chunks

(***************************************************************************)
(* Claims about one split with the program's own counter.                  *)
(***************************************************************************)
\* C16: within one call of splitTextByTokenLimit or
\* splitMarkdownFileIntoTokenChunks a failure of exact counting is never
\* replaced by an approximate count: all probes of the call are counted by
\* the same method.
C16_OneCountingMethod == Cardinality(methods) <= 1

RECURSIVE Embeds(_, _)
Embeds(os, s) ==
    IF os = << >> THEN TRUE
    ELSE \E i \in 1..(Len(s) + 1) :
           /\ i + Len(Head(os)) - 1 <= Len(s)
           /\ SubSeq(s, i, i + Len(Head(os)) - 1) = Head(os)
           /\ Embeds(Tail(os), SubSeq(s, i + Len(Head(os)), Len(s)))

\* os with a blank line between its members
RECURSIVE JoinWithBlankLine(_)
JoinWithBlankLine(os) ==
    IF Len(os) <= 1 THEN Join(os)
    ELSE Head(os) \o <<NL, NL>> \o JoinWithBlankLine(Tail(os))

\* C19: an action completed with append on a non-empty clipboard leaves the
\* previous text, a blank line and its output; one completed without append
\* leaves its output only; so after actions that appended one after another
\* the clipboard holds every output in the order the actions ran.
C19_AppendWorkflow ==
    (apc = "idle" /\ completed) =>
        /\ (append /\ before # << >>) => clipboard = before \o <<NL, NL>> \o output
        /\ ~append => clipboard = output
        /\ Embeds(outputs, clipboard)
        /\ (\A i \in 1..Len(outputs) : outputs[i] # << >>)
             => clipboard = JoinWithBlankLine(outputs)

\* a copy without append and two appends after it have completed
C19_Witness ==
    /\ apc = "idle"
    /\ completed
    /\ outputs = << <<"a">>, <<"b">>, <<"a">> >>
    /\ clipboard = <<"a", NL, NL, "b", NL, NL, "a">>

(***************************************************************************)
(* Claims about splitByTokenLimit with the character counter.              *)
(***************************************************************************)
\* C21: with the counter that counts characters and a limit L >= 1,
\* splitByTokenLimit returns ceil(n / L) chunks for a text of n characters,
\* each of L characters but the last, which has between 1 and L.
C21_CharacterCounterChunks ==
    (pc = "done" /\ tokenCounter = CharacterCounter) =>
        LET n == Len(text)
            L == maxTokensPerChunk
        IN  /\ Len(chunks) = (n + L - 1) \div L
            /\ \A i \in 1..(Len(chunks) - 1) : Len(chunks[i]) = L
            /\ Len(chunks) > 0 =>
                  /\ Len(chunks[Len(chunks)]) >= 1
                  /\ Len(chunks[Len(chunks)]) <= L

\* a text of three characters cut at two: a full chunk and a shorter last one
C21_Witness ==
    /\ pc = "done"
    /\ tokenCounter = CharacterCounter
    /\ maxTokensPerChunk = 2
    /\ Len(text) = 3
    /\ Len(chunks) = 2
    /\ Len(chunks[2]) = 1

(***************************************************************************)
(* More claims about groupFilesByTokenLimit.                               *)
(***************************************************************************)
OversizedSingleton(g) == Len(g) = 1 /\ g[1].tokenCount > maxTokensPerGroup

\* C22: a group is closed only when the next record does not fit: for two
\* consecutive returned groups G and H, neither of them a single record over
\* the limit, the token counts of G plus that of the first record of H
\* exceed the limit.
C22_ClosedOnlyWhenNextDoesNotFit ==
    gpc = "done" =>
        \A i \in 1..(Len(groups) - 1) :
            (~OversizedSingleton(groups[i]) /\ ~OversizedSingleton(groups[i + 1]))
            => SumTokens(groups[i]) + groups[i + 1][1].tokenCount > maxTokensPerGroup

\* two groups of records within the limit follow one another, the first
\* with two members
C22_Witness ==
    /\ gpc = "done"
    /\ Len(groups) = 2
    /\ Len(groups[1]) = 2
    /\ ~OversizedSingleton(groups[1])
    /\ ~OversizedSingleton(groups[2])

\* C23: every group that groupFilesByTokenLimit returns has a member, and
\* the empty record list gives no group.
C23_NoEmptyGroup ==
    /\ \A i \in 1..Len(groups) : Len(groups[i]) >= 1
    /\ (gpc = "done" /\ files = << >>) => groups = << >>

\* records counting 0 and two records over the limit in a row were grouped
C23_Witness ==
    /\ gpc = "done"
    /\ Len(files) = 3
    /\ files[1].tokenCount = 0
    /\ files[2].tokenCount > maxTokensPerGroup
    /\ files[3].tokenCount > maxTokensPerGroup
    /\ Len(groups) = 3

(***************************************************************************)
(* Claims about the rendering of the groups.                               *)
(***************************************************************************)
RawMarkdownOf(fs) == [i \in 1..Len(fs) |-> fs[i].rawMarkdown]

\* C24: every output chunk of the file-based split is the rawMarkdown of
\* the members of its group, concatenated in order, and the chunks
\* concatenated in order are the rawMarkdown of all normalized records
\* in their order.
C24_RenderingLosesNothing ==
    Rendered =>
        /\ Len(chunkStrings) = Len(fileGroups)
        /\ \A i \in 1..Len(fileGroups) :
              chunkStrings[i] = Join(RawMarkdownOf(fileGroups[i]))
        /\ Join(chunkStrings) = Join(RawMarkdownOf(normalizedFiles))

\* a chunk was rendered from a group of two records
C24_Witness ==
    /\ fpc = "rendered"
    /\ \E i \in 1..Len(fileGroups) :
          /\ Len(fileGroups[i]) = 2
          /\ chunkStrings[i] = fileGroups[i][1].rawMarkdown \o fileGroups[i][2].rawMarkdown

(***************************************************************************)
(* Claims about the loading of the encoder.                                *)
(***************************************************************************)
\* C25: at most one execution of loadTiktoken is in its loading section at
\* any time; a caller that enters loadTiktoken while a load is in flight
\* waits for it; no load starts while an encoder is set.
C25_SingleLoadInFlight ==
    /\ loadsInFlight <= 1
    /\ Cardinality({p \in Callers : callers[p].pc = "loading"}) = loadsInFlight
    /\ isLoading <=> loadsInFlight = 1
    /\ \A p \in Callers :
          /\ callers[p].pc = "loading"
               => ~callers[p].sawEncoder /\ ~callers[p].sawLoading
          /\ (callers[p].fn = "getTokenCount" /\ callers[p].sawLoading
                 /\ ~callers[p].sawEncoder /\ callers[p].pc # "returned")
               => callers[p].pc = "waiting"

\* one caller loads, one waits for that load, one estimated meanwhile
C25_Witness ==
    /\ \E p \in Callers : callers[p].pc = "loading"
    /\ \E p \in Callers : callers[p].pc = "waiting"
    /\ \E p \in Callers :
          /\ callers[p].fn = "estimateTokenCount"
          /\ callers[p].pc = "returned"
          /\ callers[p].sawLoading

\* C26: a caller that waits in loadTiktoken for a load in flight returns in
\* the end, whether the load succeeds or fails; a caller of getTokenCount to
\* which loadTiktoken returned no encoder still returns a count.
C26_WaitersAreReleased ==
    /\ \A p \in Callers :
          (callers[p].pc = "waiting") ~> (callers[p].pc = "returned")
    /\ [](\A p \in Callers :
            (callers[p].pc = "returned" /\ callers[p].fn = "getTokenCount")
            => /\ callers[p].result \in {"exact", "approximate"}
               /\ ~callers[p].gotEncoder => callers[p].result = "approximate")

\* a caller that waited has returned without an encoder, with a count
C26_Witness ==
    \E p \in Callers :
        /\ callers[p].pc = "returned"
        /\ callers[p].fn = "getTokenCount"
        /\ callers[p].sawLoading
        /\ ~callers[p].gotEncoder
        /\ callers[p].result = "approximate"

(***************************************************************************)
(* Claims about the prompts of splitClipboardByTokens.                     *)
(***************************************************************************)
\* C27: once the user has dismissed or declined one of the prompts
\* (confirmation, token limit, strategy, proceed, output method), the
\* command writes nothing to the clipboard and opens no editor.
C27_CancellingWritesNothing ==
    dismissed # {} =>
        /\ written = << >>
        /\ systemClipboard = pastedContent
        /\ editorsOpened = 0

\* C28: interactiveClipboardCopy writes the chunks in index order from 0,
\* each at most once and none beyond the last; chunk i+1 is written only
\* after "Copy next" was chosen in the prompt that followed chunk i; and
\* "All chunks copied." is shown only after every chunk was written.
C28_InteractiveCopyOrder ==
    /\ Len(written) <= Len(cmdChunks)
    /\ \A k \in 1..Len(written) : written[k] = k - 1
    /\ \A k \in 2..Len(written) : (written[k] - 1) \in chosenNext
    /\ written # << >> => systemClipboard = cmdChunks[written[Len(written)] + 1]
    /\ allCopied => Len(written) = Len(cmdChunks)

\* two chunks were copied one after the other and the end was announced
C28_Witness ==
    /\ Len(cmdChunks) >= 2
    /\ written = [k \in 1..Len(cmdChunks) |-> k - 1]
    /\ allCopied

(***************************************************************************)
(* Claims about the template store.                                        *)
(***************************************************************************)
\* C29: a save or a delete changes only the template it names: every other
\* template that was in the store when the command wrote is in the store,
\* unchanged, after the write.
C29_OnlyTheTargetChanges ==
    \A p \in Commands :
        cmds[p].wrote =>
            \A n \in TemplateNames \ {cmds[p].templateName} :
                cmds[p].after[n] = cmds[p].before[n]

(***************************************************************************)
(* Claims about copyFolder.                                                *)
(***************************************************************************)
IsBlock(x) == x # NL

\* the blocks of the selected files, in selection order
SelectedBlocks == [k \in 1..selectedItems |-> readFileAsMarkdown(k)]

\* the copy appended to a clipboard that was not empty
KeepsPrevious == folderAppend /\ previousClipboard # << >>

\* C30: when copyFolder has run to the end, the clipboard holds the block
\* of every selected file exactly once, in selection order, with nothing
\* but blank lines between them; with append the previous content of the
\* clipboard comes first, unchanged, and without append nothing else is
\* on the clipboard.
C30_FolderCopyCompleteAndOrdered ==
    folderpc = "copied" =>
        LET kept == IF KeepsPrevious THEN Len(previousClipboard) ELSE 0
        IN  /\ Len(folderClipboard) >= kept
            /\ SubSeq(folderClipboard, 1, kept) = SubSeq(previousClipboard, 1, kept)
            /\ SelectSeq(SubSeq(folderClipboard, kept + 1, Len(folderClipboard)), IsBlock)
                 = SelectedBlocks

\* more than five batches were copied behind the previous content
C30_Witness ==
    /\ folderpc = "copied"
    /\ selectedItems > BATCH_SIZE * 5
    /\ KeepsPrevious
    /\ processedFiles = selectedItems

====
